---- MODULE Spec2Model ----
(***************************************************************************)
(* Model of sql_schema_workbench.py: the safety gate of                    *)
(* DatabaseEngine.execute_select, the engine life cycle (connect,          *)
(* disconnect, get_schema, refresh_schema) of the four engine variants,    *)
(* the schema cache, the connect flows of the application session, the     *)
(* join path search DatabaseSchema.find_join_path, the dialect renderer    *)
(* and the term discovery and query drafts of the Query Builder tab.       *)
(*                                                                         *)
(* Texts (SQL, backend messages) are sequences of one-character strings,   *)
(* so that the regular expressions and the str methods of the source are   *)
(* computed character by character.  An optional value (Python None or a   *)
(* value) is a sequence of length 0 or 1.                                  *)
(***************************************************************************)
EXTENDS Integers, Sequences, FiniteSets, TLC

\* ------------------------------------------------------------------------
\* Bounds of the model
\* ------------------------------------------------------------------------
MaxFrags == 4
MaxMsgFrags == 2
MaxRows == 1
NumEngines == 2
MaxConns == 3
MaxFks == 3
MaxRequest == 3
MaxTerms == 2
MaxLimit == 12

\* ------------------------------------------------------------------------
\* Optional values
\* ------------------------------------------------------------------------
None == <<>>
Some(x) == <<x>>

\* ------------------------------------------------------------------------
\* Evaluation order
\* ------------------------------------------------------------------------
\* Op(v), with v evaluated once before Op is applied to its value (a local
\* variable of the source: the value is computed where it is assigned)
Bind(v, Op(_)) == CHOOSE r \in {Op(x) : x \in {v}} : TRUE

\* ------------------------------------------------------------------------
\* Characters and the str methods used by the source
\* ------------------------------------------------------------------------
LowerLetters == <<"a","b","c","d","e","f","g","h","i","j","k","l","m",
                  "n","o","p","q","r","s","t","u","v","w","x","y","z">>
UpperLetters == <<"A","B","C","D","E","F","G","H","I","J","K","L","M",
                  "N","O","P","Q","R","S","T","U","V","W","X","Y","Z">>
Digits == {"0","1","2","3","4","5","6","7","8","9"}
Range(f) == {f[i] : i \in DOMAIN f}

\* str.strip() with no argument strips these
Whitespace == {" ", "\n", "\t"}

\* \w of the re module (ASCII part)
WordChars == Range(LowerLetters) \cup Range(UpperLetters) \cup Digits \cup {"_"}

\* the case mappings of str.upper() and str.lower() on one character
UpperOf == [c \in Range(LowerLetters) |->
               UpperLetters[CHOOSE i \in 1..26 : LowerLetters[i] = c]]
LowerOf == [c \in Range(UpperLetters) |->
               LowerLetters[CHOOSE i \in 1..26 : UpperLetters[i] = c]]

UpperChar(c) == IF c \in DOMAIN UpperOf THEN UpperOf[c] ELSE c

LowerChar(c) == IF c \in DOMAIN LowerOf THEN LowerOf[c] ELSE c

RECURSIVE Decimal(_)
\* str(n) for a natural number n
Decimal(n) ==
    LET digit == <<"0","1","2","3","4","5","6","7","8","9">>[(n % 10) + 1]
    IN  IF n < 10 THEN <<digit>> ELSE Decimal(n \div 10) \o <<digit>>

\* str.upper() / str.lower()
Upper(s) == Bind(s, LAMBDA t : [i \in 1..Len(t) |-> UpperChar(t[i])])
Lower(s) == Bind(s, LAMBDA t : [i \in 1..Len(t) |-> LowerChar(t[i])])

\* s[i:j] of Python with 1-based inclusive bounds
Slice(s, i, j) == SubSeq(s, i, j)

\* sub occurs in s at position i
OccursAt(s, sub, i) ==
    /\ i >= 1
    /\ i + Len(sub) - 1 <= Len(s)
    /\ \A k \in 1..Len(sub) : s[i + k - 1] = sub[k]

\* `sub in s`
Contains(s, sub) ==
    \E t \in {s} : \E i \in 1..(Len(t) + 1) : OccursAt(t, sub, i)

\* str.startswith
StartsWith(s, prefix) == OccursAt(s, prefix, 1)

\* str.strip(): drop leading and trailing whitespace
Strip(s) ==
    Bind(s, LAMBDA t :
        Bind({i \in 1..Len(t) : t[i] \notin Whitespace}, LAMBDA keep :
            IF keep = {} THEN <<>>
            ELSE Slice(t, CHOOSE i \in keep : \A j \in keep : i <= j,
                          CHOOSE i \in keep : \A j \in keep : j <= i)))

\* str.rstrip(";"): drop trailing semicolons
RStripSemicolons(s) ==
    Bind(s, LAMBDA t :
        Bind({i \in 1..Len(t) : t[i] # ";"}, LAMBDA keep :
            IF keep = {} THEN <<>>
            ELSE Slice(t, 1, CHOOSE i \in keep : \A j \in keep : j <= i)))

\* ------------------------------------------------------------------------
\* strip_sql_comments
\* ------------------------------------------------------------------------
\* end of the match of  --.*?$  (re.MULTILINE) whose "--" ends at j-1:
\* the first position from j on that holds a newline, or Len(s)+1
LineEnd(s, j) ==
    Bind({k \in j..(Len(s) + 1) : k = Len(s) + 1 \/ s[k] = "\n"},
         LAMBDA stops : CHOOSE k \in stops : \A m \in stops : k <= m)

RECURSIVE StripLineComments(_, _)
\* re.sub(r'--.*?$', '', sql, flags=re.MULTILINE), scanning from position i
StripLineComments(s, i) ==
    IF i > Len(s) THEN <<>>
    ELSE IF OccursAt(s, <<"-", "-">>, i)
         THEN StripLineComments(s, LineEnd(s, i + 2))
         ELSE <<s[i]>> \o StripLineComments(s, i + 1)

\* positions j >= i+2 where the closing  */  of a  /*  opened at i can start
BlockCloses(s, i) == {j \in (i + 2)..Len(s) : OccursAt(s, <<"*", "/">>, j)}

RECURSIVE StripBlockComments(_, _)
\* re.sub(r'/\*.*?\*/', '', sql, flags=re.DOTALL), scanning from position i
StripBlockComments(s, i) ==
    IF i > Len(s) THEN <<>>
    ELSE IF OccursAt(s, <<"/", "*">>, i) /\ BlockCloses(s, i) # {}
         THEN Bind(BlockCloses(s, i), LAMBDA closes :
                  StripBlockComments(s,
                      (CHOOSE k \in closes : \A m \in closes : k <= m) + 2))
         ELSE <<s[i]>> \o StripBlockComments(s, i + 1)

strip_sql_comments(sql) ==
    Bind(sql, LAMBDA raw :
        Bind(StripLineComments(raw, 1), LAMBDA noLine :
            Strip(StripBlockComments(noLine, 1))))

\* ------------------------------------------------------------------------
\* contains_dangerous_sql
\* ------------------------------------------------------------------------
dangerous ==
    << <<"I","N","S","E","R","T">>,
       <<"U","P","D","A","T","E">>,
       <<"D","E","L","E","T","E">>,
       <<"D","R","O","P">>,
       <<"A","L","T","E","R">>,
       <<"T","R","U","N","C","A","T","E">>,
       <<"C","R","E","A","T","E">>,
       <<"R","E","P","L","A","C","E">>,
       <<"A","T","T","A","C","H">>,
       <<"D","E","T","A","C","H">>,
       <<"P","R","A","G","M","A">> >>

\* the search without re.IGNORECASE
WordSearchCaseSensitive(word, sql) ==
    \E raw \in {sql} :
        \E i \in 1..Len(raw) :
            /\ OccursAt(raw, word, i)
            /\ (i = 1 \/ raw[i - 1] \notin WordChars)
            /\ (i + Len(word) - 1 = Len(raw)
                  \/ raw[i + Len(word)] \notin WordChars)

\* re.search(rf'\b{word}\b', sql, re.IGNORECASE): word is made of \w
\* characters, so \b holds before it iff the previous character is not \w
\* (or there is none), and after it likewise
WordSearch(word, sql) ==
    \E raw \in {sql}, text \in {Upper(sql)}, pattern \in {Upper(word)} :
        \E i \in 1..Len(raw) :
            /\ OccursAt(text, pattern, i)
            /\ (i = 1 \/ raw[i - 1] \notin WordChars)
            /\ (i + Len(word) - 1 = Len(raw)
                  \/ raw[i + Len(word)] \notin WordChars)

\* the first word of the list that is found, or None
contains_dangerous_sql(sql) ==
    Bind(sql, LAMBDA raw :
        Bind({n \in 1..Len(dangerous) : WordSearch(dangerous[n], raw)},
             LAMBDA found :
                IF found = {} THEN None
                ELSE Some(dangerous[CHOOSE n \in found :
                                        \A m \in found : n <= m])))


\* ------------------------------------------------------------------------
\* SandboxResult and DatabaseEngine.execute_select
\* ------------------------------------------------------------------------
\* SandboxResult(status, df, message); df is None or Some(number of rows);
\* message is a text: the fixed texts of the source are one element each,
\* the message of a backend exception is kept character by character
SandboxResult(status, df, message) ==
    [status |-> status, df |-> df, message |-> message]

SELECT == <<"S","E","L","E","C","T">>

NoSuchFunction == <<"n","o"," ","s","u","c","h"," ","f","u","n","c","t","i","o","n">>
SyntaxError == <<"s","y","n","t","a","x"," ","e","r","r","o","r">>
NoSuchTable == <<"n","o"," ","s","u","c","h"," ","t","a","b","l","e">>

\* the hints, without their leading pictogram
HintDialect == "\n\nThis looks like SQL from another dialect."
HintSyntax == "\n\nCheck commas, joins, or keyword order."
HintTable == "\n\nTable not found. Check spelling and refresh schema."

MsgNotConnected == <<"Not connected to database">>
MsgNoSql == <<"No SQL provided.">>
MsgMultiple ==
    <<"Multiple SQL statements detected. Only single SELECT statements are allowed.">>
MsgOnlySelect == <<"Only SELECT queries are allowed.">>
\* the f-string of the denylist refusal, without the quotes around the word
MsgDangerous(word) ==
    <<"This query contains ">> \o word
        \o <<". Execution is blocked to prevent data changes.">>
MsgNoRows == <<"Query ran successfully but returned no rows.">>
MsgRows(n) ==
    <<"Query executed successfully. Returned ">> \o Decimal(n) \o <<" row(s).">>

\* the except branch with the syntax-error test made first
ErrorMessageSyntaxFirst(msg) ==
    Bind(Lower(msg), LAMBDA low :
        IF Contains(low, SyntaxError) THEN msg \o <<HintSyntax>>
        ELSE IF Contains(low, NoSuchFunction) THEN msg \o <<HintDialect>>
        ELSE IF Contains(low, NoSuchTable) THEN msg \o <<HintTable>>
        ELSE msg)

\* the except branch: str(e) plus at most one hint
ErrorMessage(msg) ==
    Bind(Lower(msg), LAMBDA low :
        IF Contains(low, NoSuchFunction) THEN msg \o <<HintDialect>>
        ELSE IF Contains(low, SyntaxError) THEN msg \o <<HintSyntax>>
        ELSE IF Contains(low, NoSuchTable) THEN msg \o <<HintTable>>
        ELSE msg)

\* a test that counts the semicolons: more than one
MultipleStatementsByCount(cleaned) ==
    Cardinality({i \in 1..Len(cleaned) : cleaned[i] = ";"}) > 1

\* cleaned_no_trailing = cleaned.rstrip(";"); ";" in cleaned_no_trailing
MultipleStatements(cleaned) ==
    Contains(RStripSemicolons(cleaned), <<";">>)

\* the checks without the test of the SELECT prefix
GateRefusalNoPrefix(sql, cleaned) ==
    Bind(contains_dangerous_sql(cleaned), LAMBDA danger :
        IF Strip(sql) = <<>>
        THEN Some(SandboxResult("warning", None, MsgNoSql))
        ELSE IF MultipleStatements(cleaned)
        THEN Some(SandboxResult("warning", None, MsgMultiple))
        ELSE IF danger # None
        THEN Some(SandboxResult("warning", None, MsgDangerous(danger[1])))
        ELSE None)

\* the checks made before the try block on sql and on cleaned, its text
\* without comments; None when every check passes
GateRefusal(sql, cleaned) ==
    Bind(contains_dangerous_sql(cleaned), LAMBDA danger :
        IF Strip(sql) = <<>>
        THEN Some(SandboxResult("warning", None, MsgNoSql))
        ELSE IF MultipleStatements(cleaned)
        THEN Some(SandboxResult("warning", None, MsgMultiple))
        ELSE IF danger # None
        THEN Some(SandboxResult("warning", None, MsgDangerous(danger[1])))
        ELSE IF ~StartsWith(Strip(Upper(cleaned)), SELECT)
        THEN Some(SandboxResult("warning", None, MsgOnlySelect))
        ELSE None)

\* cleaned = strip_sql_comments(sql) and the outcome of the checks
Checks(sql) ==
    Bind(strip_sql_comments(sql), LAMBDA cleaned :
        [cleaned |-> cleaned, refusal |-> GateRefusal(sql, cleaned)])

\* the try block reporting an empty frame as no frame
BackendReturnNoFrame(out) ==
    IF out.raises
    THEN SandboxResult("error", None, ErrorMessage(out.msg))
    ELSE IF out.rows = 0
    THEN SandboxResult("success", None, MsgNoRows)
    ELSE SandboxResult("success", Some(out.rows), MsgRows(out.rows))

\* what pd.read_sql_query does with the text: it returns a frame of
\* out.rows rows or raises an exception whose str() is out.msg
BackendReturn(out) ==
    IF out.raises
    THEN SandboxResult("error", None, ErrorMessage(out.msg))
    ELSE IF out.rows = 0
    THEN SandboxResult("success", Some(0), MsgNoRows)
    ELSE SandboxResult("success", Some(out.rows), MsgRows(out.rows))

\* execute_select running the text also when a check refused it
execute_select_RunsRefused(connected, cleaned, refusal, out, returned) ==
    IF ~connected
    THEN [result |-> SandboxResult("error", None, MsgNotConnected),
          handed |-> None, calls |-> 0, raised |-> None]
    ELSE [result |-> IF refusal # None THEN refusal[1] ELSE returned,
          handed |-> Some(cleaned), calls |-> 1,
          raised |-> IF out.raises THEN Some(out.msg) ELSE None]

\* execute_select on an engine whose conn is `connected`, where cleaned is
\* the text without comments, refusal the outcome of the checks, out what
\* pd.read_sql_query does and returned what the try block returns then; the
\* value is the SandboxResult returned, the text handed to
\* pd.read_sql_query (None when it is not called), the number of times it
\* is called and the message of the exception caught (None if none)
execute_select(connected, cleaned, refusal, out, returned) ==
    IF ~connected
    THEN [result |-> SandboxResult("error", None, MsgNotConnected),
          handed |-> None, calls |-> 0, raised |-> None]
    ELSE IF refusal # None
    THEN [result |-> refusal[1], handed |-> None, calls |-> 0,
          raised |-> None]
    ELSE [result |-> returned,
          handed |-> Some(cleaned), calls |-> 1,
          raised |-> IF out.raises THEN Some(out.msg) ELSE None]

\* ------------------------------------------------------------------------
\* DatabaseSchema and the catalogs a backend can hold
\* ------------------------------------------------------------------------
\* tables is a list, columns a dict (function) from table to list,
\* relationships a dict from table to list of (ref_table, local, ref)
DatabaseSchema(tables, columns, relationships) ==
    [tables |-> tables, columns |-> columns, relationships |-> relationships]

EmptySchema == DatabaseSchema(<<>>, <<>>, <<>>)

\* what the system catalog of a backend can contain when it is read:
\* per table its columns and its foreign keys
Catalogs ==
    { [tables |-> <<>>, columns |-> <<>>, fks |-> <<>>],
      [tables |-> <<"Orders">>,
       columns |-> [t \in {"Orders"} |-> <<"OrderID", "CustomerID">>],
       fks |-> [t \in {"Orders"} |-> <<>>]],
      [tables |-> <<"Orders", "Customers">>,
       columns |-> [t \in {"Orders", "Customers"} |->
                      IF t = "Orders" THEN <<"OrderID", "CustomerID">>
                      ELSE <<"CustomerID", "Name">>],
       fks |-> [t \in {"Orders", "Customers"} |->
                  IF t = "Orders"
                  THEN << <<"Customers", "CustomerID", "CustomerID">> >>
                  ELSE <<>>]] }

\* dict(relationships) of the defaultdict: a key exists for the tables in
\* `among` that appended at least one foreign key
RelationshipsOf(cat, among) ==
    [t \in {u \in among : cat.fks[u] # <<>>} |-> cat.fks[t]]

\* the try block of SQLiteEngine.get_schema: the table query raises
\* (failTables), or table_info raises for the tables of failCols and
\* foreign_key_list raises for those of failFk (both caught per table);
\* catq is the number of catalog queries issued, failed the number of
\* those that raised
IntrospectSQLite(cat, failTables, failCols, failFk) ==
    LET names == Range(cat.tables)
    IN  IF failTables
        THEN [ok |-> FALSE, schema |-> EmptySchema, catq |-> 1, failed |-> 1]
        ELSE [ok |-> TRUE,
              failed |-> Cardinality(names \cap failCols)
                           + Cardinality(names \cap failFk),
              schema |-> DatabaseSchema(
                  cat.tables,
                  [t \in names |-> IF t \in failCols THEN <<>>
                                   ELSE cat.columns[t]],
                  RelationshipsOf(cat, names \ failFk)),
              catq |-> 1 + 2 * Len(cat.tables)]

\* the try block of the information_schema engines (PostgreSQL, MySQL,
\* SQL Server): step 0 is conn.cursor(), steps 1..1+2n are the catalog
\* queries, step 2+2n is cur.close(); the step failAt raises, and
\* failAt = 3+2n means that nothing raises
IntrospectInformationSchema(cat, failAt) ==
    LET total == 1 + 2 * Len(cat.tables)
    IN  IF failAt <= total + 1
        THEN [ok |-> FALSE, schema |-> EmptySchema,
              catq |-> IF failAt <= total THEN failAt ELSE total,
              failed |-> IF 1 <= failAt /\ failAt <= total THEN 1 ELSE 0]
        ELSE [ok |-> TRUE, failed |-> 0,
              schema |-> DatabaseSchema(cat.tables,
                             [t \in Range(cat.tables) |-> cat.columns[t]],
                             RelationshipsOf(cat, Range(cat.tables))),
              catq |-> total]


\* ------------------------------------------------------------------------
\* State
\* ------------------------------------------------------------------------
Engines == 1..NumEngines
ConnIds == 1..MaxConns

\* self.conn = None
NoConn == 0

\* "engine" not in st.session_state
NoEngine == 0

\* find_join_path is not running
JoinIdle == [pc |-> "idle"]

\* the Query Builder tab has not run
DraftIdle == [pc |-> "idle"]

\* the engine classes, by their name attribute
Kinds == {"SQLite", "PostgreSQL", "MySQL", "SQL Server"}
NotConstructed == "none"

VARIABLES
    kind,      \* kind[e]: class of engine object e, or NotConstructed
    conn,      \* conn[e]: self.conn, a backend session id or NoConn
    cache,     \* cache[e]: self._schema_cache, None or Some of the schema
               \*   and (ghost) the session it was read over
    open,      \* the backend sessions that are open
    nextConn,  \* the id the next backend session gets
    sqlText,   \* the text of the SQL Tester text area
    active,    \* st.session_state["engine"]: an engine object or NoEngine
    join,      \* the run of find_join_path: its arguments, the local
               \*   variables of its loop and its return value
    draft,     \* the run of the Query Builder tab: its inputs, the
               \*   discovery results and the drafted SQL
    last       \* the last call: its operation, engine, argument, return
               \*   value and the backend traffic it caused

vars ==
    <<kind, conn, cache, open, nextConn, sqlText, active, join, draft, last>>

\* the record of a call, before its results are filled in
Call(op, e) ==
    [op |-> op, eng |-> e, sql |-> <<>>, result |-> None, handed |-> None,
     calls |-> 0, raised |-> None, ok |-> None, message |-> "",
     schema |-> None, catq |-> 0, failed |-> 0]

EngineInit ==
    /\ kind = [e \in Engines |-> NotConstructed]
    /\ conn = [e \in Engines |-> NoConn]
    /\ cache = [e \in Engines |-> None]
    /\ open = {}
    /\ nextConn = 1
    /\ active = NoEngine
    /\ join = JoinIdle
    /\ draft = DraftIdle
    /\ last = Call("none", 0)

\* ------------------------------------------------------------------------
\* Construction and disconnect
\* ------------------------------------------------------------------------
\* DatabaseEngine.__init__ and the __init__ of the subclass k; objects are
\* numbered in the order of their construction
Construct(e, k) ==
    /\ kind[e] = NotConstructed
    /\ \A d \in Engines : d < e => kind[d] # NotConstructed
    /\ kind' = [kind EXCEPT ![e] = k]
    /\ conn' = [conn EXCEPT ![e] = NoConn]
    /\ cache' = [cache EXCEPT ![e] = None]
    /\ last' = Call("construct", e)
    /\ UNCHANGED <<open, nextConn, sqlText, active, join, draft>>

\* the sessions open after self.disconnect() on engine e (an exception of
\* conn.close() is swallowed)
OpenAfterDisconnect(e) == IF conn[e] # NoConn THEN open \ {conn[e]} ELSE open

\* disconnect that closes the session and keeps self._schema_cache
DisconnectKeepsCache(e) ==
    /\ kind[e] # NotConstructed
    /\ open' = OpenAfterDisconnect(e)
    /\ conn' = [conn EXCEPT ![e] = NoConn]
    /\ last' = Call("disconnect", e)
    /\ UNCHANGED <<kind, cache, nextConn, sqlText, active, join, draft>>

\* disconnect: conn.close() in a try block, then self.conn = None and
\* self._schema_cache = None
Disconnect(e) ==
    /\ kind[e] # NotConstructed
    /\ open' = OpenAfterDisconnect(e)
    /\ conn' = [conn EXCEPT ![e] = NoConn]
    /\ cache' = [cache EXCEPT ![e] = None]
    /\ last' = Call("disconnect", e)
    /\ UNCHANGED <<kind, nextConn, sqlText, active, join, draft>>

\* ------------------------------------------------------------------------
\* connect
\* ------------------------------------------------------------------------
\* connect returned before self.disconnect(): nothing changes
ConnectRejected(e, msg) ==
    /\ last' = [Call("connect", e) EXCEPT !.ok = Some(FALSE), !.message = msg]
    /\ UNCHANGED <<kind, conn, cache, open, nextConn, sqlText, active, join, draft>>

\* self.disconnect() ran and the driver's connect raised
ConnectRaised(e, msg) ==
    /\ open' = OpenAfterDisconnect(e)
    /\ conn' = [conn EXCEPT ![e] = NoConn]
    /\ cache' = [cache EXCEPT ![e] = None]
    /\ last' = [Call("connect", e) EXCEPT !.ok = Some(FALSE), !.message = msg]
    /\ UNCHANGED <<kind, nextConn, sqlText, active, join, draft>>

\* self.disconnect() ran and the driver's connect returned a new session,
\* assigned to self.conn; connect then returns ok
ConnectOpened(e, ok, msg) ==
    /\ nextConn <= MaxConns
    /\ open' = OpenAfterDisconnect(e) \cup {nextConn}
    /\ conn' = [conn EXCEPT ![e] = nextConn]
    /\ cache' = [cache EXCEPT ![e] = None]
    /\ nextConn' = nextConn + 1
    /\ last' = [Call("connect", e) EXCEPT !.ok = Some(ok), !.message = msg]
    /\ UNCHANGED <<kind, sqlText, active, join, draft>>

\* the files a path can name: whether it exists, is a regular file, its
\* suffix, whether sqlite3.connect opens it and whether the probe of
\* sqlite_master succeeds on it
Paths ==
    { [exists |-> FALSE, isFile |-> FALSE, suffix |-> <<".","d","b">>,
       opens |-> FALSE, isDb |-> FALSE],
      [exists |-> TRUE, isFile |-> FALSE, suffix |-> <<>>,
       opens |-> FALSE, isDb |-> FALSE],
      [exists |-> TRUE, isFile |-> TRUE, suffix |-> <<".","t","x","t">>,
       opens |-> TRUE, isDb |-> FALSE],
      [exists |-> TRUE, isFile |-> TRUE, suffix |-> <<".","d","b">>,
       opens |-> FALSE, isDb |-> FALSE],
      [exists |-> TRUE, isFile |-> TRUE, suffix |-> <<".","D","B">>,
       opens |-> TRUE, isDb |-> FALSE],
      [exists |-> TRUE, isFile |-> TRUE, suffix |-> <<".","s","q","l","i","t","e">>,
       opens |-> TRUE, isDb |-> TRUE],
      [exists |-> TRUE, isFile |-> TRUE, suffix |-> <<>>,
       opens |-> TRUE, isDb |-> TRUE] }

AcceptedSuffixes ==
    { <<".","d","b">>, <<".","s","q","l","i","t","e">>, <<".","s","q","l","i","t","e","3">>, <<".","d","b","3">>, <<>> }

\* how a connect call ends: it returned before self.disconnect()
\* ("rejected"), the driver's connect raised ("raised"), or a session was
\* opened and assigned to self.conn ("opened"); with the pair returned
ConnectResult(stage, ok, msg) == [stage |-> stage, ok |-> ok, msg |-> msg]

\* the state change of a connect call on engine e that ends as r
ApplyConnect(e, r) ==
    IF r.stage = "rejected" THEN ConnectRejected(e, r.msg)
    ELSE IF r.stage = "raised" THEN ConnectRaised(e, r.msg)
    ELSE ConnectOpened(e, r.ok, r.msg)

\* SQLiteEngine.connect(path)
SQLiteConnectResult(path) ==
    IF ~path.exists THEN ConnectResult("rejected", FALSE, "File not found")
    ELSE IF ~path.isFile
    THEN ConnectResult("rejected", FALSE, "Not a valid file")
    ELSE IF Lower(path.suffix) \notin AcceptedSuffixes
    THEN ConnectResult("rejected", FALSE, "Invalid file extension")
    ELSE IF ~path.opens
    THEN ConnectResult("raised", FALSE, "Invalid SQLite database")
    ELSE IF ~path.isDb
    THEN ConnectResult("opened", FALSE, "Invalid SQLite database")
    ELSE ConnectResult("opened", TRUE, "Connected")

SQLiteConnect(e, path) ==
    /\ kind[e] = "SQLite"
    /\ ApplyConnect(e, SQLiteConnectResult(path))

\* PostgreSQLEngine.connect and MySQLEngine.connect: the driver library is
\* installed or not, the server accepts the session or the driver raises
NetworkConnectResult(installed, accepted) ==
    IF ~installed
    THEN ConnectResult("rejected", FALSE, "library not installed")
    ELSE IF ~accepted THEN ConnectResult("raised", FALSE, "connection failed")
    ELSE ConnectResult("opened", TRUE, "Connected")

NetworkConnect(e, installed, accepted) ==
    /\ kind[e] \in {"PostgreSQL", "MySQL"}
    /\ ApplyConnect(e, NetworkConnectResult(installed, accepted))

\* the names pyodbc.drivers() can list
OdbcDrivers == { <<"S","Q","L"," ","S","e","r","v","e","r">>, <<"M","y","S","Q","L"," ","O","D","B","C"," ","8",".","0"," ","D","r","i","v","e","r">> }

\* SQLServerEngine.connect, where drivers is what pyodbc.drivers() lists
SQLServerConnectResult(installed, drivers, accepted) ==
    IF ~installed
    THEN ConnectResult("rejected", FALSE, "library not installed")
    ELSE IF {d \in drivers : Contains(d, <<"S","Q","L"," ","S","e","r","v","e","r">>)} = {}
    THEN ConnectResult("rejected", FALSE, "No SQL Server ODBC driver found")
    ELSE IF ~accepted THEN ConnectResult("raised", FALSE, "connection failed")
    ELSE ConnectResult("opened", TRUE, "Connected")

SQLServerConnect(e, installed, drivers, accepted) ==
    /\ kind[e] = "SQL Server"
    /\ ApplyConnect(e, SQLServerConnectResult(installed, drivers, accepted))

Connect(e) ==
    \/ \E path \in Paths : SQLiteConnect(e, path)
    \/ \E installed, accepted \in BOOLEAN :
           NetworkConnect(e, installed, accepted)
    \/ \E installed, accepted \in BOOLEAN, drivers \in SUBSET OdbcDrivers :
           SQLServerConnect(e, installed, drivers, accepted)


\* ------------------------------------------------------------------------
\* get_schema and refresh_schema
\* ------------------------------------------------------------------------
\* what the backend does during one introspection of an engine of class
\* k: the catalog it holds and the calls that raise (the fields that the
\* class does not use are fixed)
IntrospectionsOf(k) ==
    IF k = "SQLite"
    THEN {[cat |-> c, failTables |-> TRUE, failCols |-> {}, failFk |-> {},
           failAt |-> 0] : c \in Catalogs}
         \cup UNION {[cat : {c}, failTables : {FALSE},
                      failCols : SUBSET Range(c.tables),
                      failFk : SUBSET Range(c.tables),
                      failAt : {0}] : c \in Catalogs}
    ELSE UNION {[cat : {c}, failTables : {FALSE}, failCols : {{}},
                 failFk : {{}}, failAt : 0..(3 + 2 * Len(c.tables))] :
                c \in Catalogs}

Introspect(k, b) ==
    IF k = "SQLite"
    THEN IntrospectSQLite(b.cat, b.failTables, b.failCols, b.failFk)
    ELSE IntrospectInformationSchema(b.cat, b.failAt)

\* get_schema without the test of self._schema_cache
get_schema_NoCache(k, c, cch, b) ==
    IF c = NoConn
    THEN [schema |-> EmptySchema, cache |-> cch, catq |-> 0, failed |-> 0]
    ELSE LET r == Introspect(k, b)
         IN  IF r.ok
             THEN [schema |-> r.schema,
                   cache |-> Some([schema |-> r.schema, via |-> c]),
                   catq |-> r.catq, failed |-> r.failed]
             ELSE [schema |-> EmptySchema, cache |-> cch, catq |-> r.catq,
                   failed |-> r.failed]

\* get_schema of an engine of class k whose fields are c (conn) and cch
\* (_schema_cache): the schema returned, the cache afterwards, the number
\* of catalog queries issued and the number of those that raised
get_schema(k, c, cch, b) ==
    IF cch # None
    THEN [schema |-> cch[1].schema, cache |-> cch, catq |-> 0,
          failed |-> 0]
    ELSE IF c = NoConn
    THEN [schema |-> EmptySchema, cache |-> cch, catq |-> 0, failed |-> 0]
    ELSE LET r == Introspect(k, b)
         IN  IF r.ok
             THEN [schema |-> r.schema,
                   cache |-> Some([schema |-> r.schema, via |-> c]),
                   catq |-> r.catq, failed |-> r.failed]
             ELSE [schema |-> EmptySchema, cache |-> cch, catq |-> r.catq,
                   failed |-> r.failed]

GetSchema(e) ==
    /\ kind[e] # NotConstructed
    /\ \E b \in IntrospectionsOf(kind[e]) :
         LET r == get_schema(kind[e], conn[e], cache[e], b)
         IN  /\ cache' = [cache EXCEPT ![e] = r.cache]
             /\ last' = [Call("get_schema", e) EXCEPT
                            !.schema = Some(r.schema), !.catq = r.catq,
                            !.failed = r.failed]
    /\ UNCHANGED <<kind, conn, open, nextConn, sqlText, active, join, draft>>

\* refresh_schema: self._schema_cache = None, then self.get_schema()
RefreshSchema(e) ==
    /\ kind[e] # NotConstructed
    /\ \E b \in IntrospectionsOf(kind[e]) :
         LET r == get_schema(kind[e], conn[e], None, b)
         IN  /\ cache' = [cache EXCEPT ![e] = r.cache]
             /\ last' = [Call("refresh_schema", e) EXCEPT
                            !.schema = Some(r.schema), !.catq = r.catq,
                            !.failed = r.failed]
    /\ UNCHANGED <<kind, conn, open, nextConn, sqlText, active, join, draft>>

\* ------------------------------------------------------------------------
\* execute_select as an operation of engine e
\* ------------------------------------------------------------------------
\* the fragments the texts of the model are made of
SqlFragments ==
    { <<"S","e","l","e","c","t">>, <<"D","r","o","p">>, <<"I","N","T","O">>, <<";">>, <<"-","-">>, <<"\n">>, <<"/","*">>, <<"*","/">> }

\* a query with a line comment, as in the documentation
CommentedQuery ==
    <<"s","e","l","e","c","t"," ","N","a","m","e"," ","f","r","o","m"," ",
      "E","m","p","l","o","y","e","e","s"," ","-","-"," ","c","o","m","m",
      "e","n","t">>

\* the preview query of the Schema Explorer on SQLite, for table Orders
PreviewQuery ==
    <<"S","E","L","E","C","T"," ","*"," ","F","R","O","M"," ","\"","O",
      "r","d","e","r","s","\""," ","L","I","M","I","T"," ","1","0",";">>

\* queries as they are written: with a second statement, with comments and
\* with dialect-specific forms
SampleQueries ==
    { CommentedQuery, PreviewQuery,
      <<"S","E","L","E","C","T"," ","*"," ","F","R","O","M"," ","t",";"," ",
        "D","R","O","P"," ","T","A","B","L","E"," ","t",";">>,
      <<"S","E","L","E","C","T"," ","1"," ","-","-"," ","d","r","o","p"," ",
        "i","t"," ","l","a","t","e","r">>,
      <<"S","E","L","E","C","T"," ","1"," ","/","*"," ","-","-"," ","*","/",
        " ",";"," ","D","R","O","P"," ","T","A","B","L","E"," ","t">>,
      <<"S","E","L","E","C","T"," ","d","r","o","p","/","*","*","/","p","e",
        "d"," ","F","R","O","M"," ","t">>,
      <<"S","E","L","E","C","T"," ","*"," ","I","N","T","O"," ","b","a","c",
        "k","u","p"," ","F","R","O","M"," ","t">>,
      <<"P","R","A","G","M","A"," ","t","a","b","l","e","_","i","n","f","o",
        "(","t",")">> }

RECURSIVE Flatten(_)
\* the concatenation of a sequence of texts
Flatten(fs) == IF fs = <<>> THEN <<>> ELSE Head(fs) \o Flatten(Tail(fs))

\* the texts of at most n fragments
TextsOf(frags, n) ==
    {Flatten(fs) : fs \in UNION {[1..m -> frags] : m \in 0..n}}

\* the messages str(e) of the exceptions the backend raises
MessageFragments ==
    { NoSuchFunction, <<"S","y","n","t","a","x"," ","E","r","r","o","r">>, NoSuchTable, <<"d","a","t","a","b","a","s","e"," ","i","s"," ","l","o","c","k","e","d">> }

\* what pd.read_sql_query can do
BackendOutcomes ==
    {[raises |-> FALSE, rows |-> n, msg |-> <<>>] : n \in 0..MaxRows}
    \cup {[raises |-> TRUE, rows |-> 0, msg |-> m] :
             m \in TextsOf(MessageFragments, MaxMsgFrags)}

\* what the try block returns on each outcome of the backend
BackendReturns == [out \in BackendOutcomes |-> BackendReturn(out)]

\* execute_select(sql) on engine e, where checks is Checks(sql) and returns
\* gives, for everything pd.read_sql_query can do if it is called, what
\* the try block returns then; the backend is asked only when
\* execute_select reaches its try block
ExecuteSelect(e, sql, checks, returns) ==
    /\ kind[e] # NotConstructed
    /\ \E connected \in {conn[e] # NoConn}, chk \in {checks} :
         \E out \in IF connected /\ chk.refusal = None THEN DOMAIN returns
                    ELSE {CHOOSE o \in DOMAIN returns : TRUE} :
           \E r \in {execute_select(connected, chk.cleaned, chk.refusal,
                                    out, returns[out])} :
                 last' = [Call("execute_select", e) EXCEPT
                             !.sql = sql, !.result = Some(r.result),
                             !.handed = r.handed, !.calls = r.calls,
                             !.raised = r.raised]
    /\ UNCHANGED <<kind, conn, cache, open, nextConn, sqlText, active, join, draft>>

\* ------------------------------------------------------------------------
\* Specifications
\* ------------------------------------------------------------------------
\* the texts given to execute_select by the callers of the engine interface
ApiTexts ==
    { <<>>, <<" ">>, SELECT \o <<" ","1",";">>,
      SELECT \o <<" ","1",";"," ">> \o SELECT \o <<" ","2">>,
      <<"D","R","O","P"," ","t">>,
      <<"W","I","T","H"," ","x"," ","A","S"," ","(">> \o SELECT
          \o <<" ","1",")"," ">> \o SELECT \o <<" ","*"," ","F","R","O","M"," ","x">>,
      CommentedQuery, PreviewQuery }

\* the checks of execute_select on each of these texts
ApiChecks == [sql \in ApiTexts |-> Checks(sql)]

Init ==
    /\ EngineInit
    /\ sqlText = <<>>

\* Engine objects share no field, so the calls of the engine interface are
\* made on one object, in any order
ApiEngines == {1}

Next ==
    \/ \E e \in ApiEngines, k \in Kinds : Construct(e, k)
    \/ \E e \in ApiEngines : Connect(e)
    \/ \E e \in ApiEngines : Disconnect(e)
    \/ \E e \in ApiEngines : GetSchema(e)
    \/ \E e \in ApiEngines : RefreshSchema(e)
    \/ \E e \in ApiEngines, sql \in ApiTexts :
           ExecuteSelect(e, sql, ApiChecks[sql], BackendReturns)

Spec == Init /\ [][Next]_vars

\* The safety gate on the texts of the SQL Tester: the text area holds any
\* text, engine 1 is an engine of any class that connected
GateInit ==
    /\ \E k \in Kinds : kind = [e \in Engines |-> IF e = 1 THEN k
                                                  ELSE NotConstructed]
    /\ conn = [e \in Engines |-> IF e = 1 THEN 1 ELSE NoConn]
    /\ cache = [e \in Engines |-> None]
    /\ open = {1}
    /\ nextConn = 2
    /\ active = NoEngine
    /\ join = JoinIdle
    /\ draft = DraftIdle
    /\ last = [Call("connect", 1) EXCEPT !.ok = Some(TRUE),
                                         !.message = "Connected"]
    /\ sqlText \in TextsOf(SqlFragments, MaxFrags) \cup SampleQueries

\* for the gate it only matters whether the backend returns or raises
GateOutcomes ==
    { [raises |-> FALSE, rows |-> MaxRows, msg |-> <<>>],
      [raises |-> TRUE, rows |-> 0, msg |-> NoSuchTable] }

\* what the try block returns on each of them
GateReturns == [out \in GateOutcomes |-> BackendReturn(out)]

GateNext == ExecuteSelect(1, sqlText, Checks(sqlText), GateReturns)

GateSpec == GateInit /\ [][GateNext]_vars


\* ------------------------------------------------------------------------
\* The application: the session's engine and the connect flows of tab_db
\* ------------------------------------------------------------------------
\* the engine object that a flow creates (new_engine = ...Engine()): the
\* objects that the session does not reference are garbage, their number
\* is taken again
NewEngine ==
    CHOOSE e \in Engines \ {active} : \A d \in Engines \ {active} : e <= d

\* the ways connect can end on an engine of class k
ConnectResults(k) ==
    IF k = "SQLite" THEN {SQLiteConnectResult(path) : path \in Paths}
    ELSE IF k = "SQL Server"
    THEN {SQLServerConnectResult(installed, drivers, accepted) :
             installed \in BOOLEAN, drivers \in SUBSET OdbcDrivers,
             accepted \in BOOLEAN}
    ELSE {NetworkConnectResult(installed, accepted) :
             installed \in BOOLEAN, accepted \in BOOLEAN}

\* self.conn of a new engine after a connect that ended as r
NewConn(r) == IF r.stage = "opened" THEN nextConn ELSE NoConn

\* the session opened by the connect of the new engine, if any
Opened(c) == IF c = NoConn THEN {} ELSE {c}

\* a failure branch that releases the session's engine
DropActive(e, c) ==
    [conn |-> [conn EXCEPT ![e] = c, ![active] = NoConn],
     cache |-> [cache EXCEPT ![e] = None, ![active] = None],
     open |-> OpenAfterDisconnect(active) \cup Opened(c),
     active |-> active]

\* the failure branch of a flow (st.error, or nothing): the new engine e,
\* whose conn is c, is dropped
KeepActive(e, c) ==
    [conn |-> [conn EXCEPT ![e] = c],
     cache |-> [cache EXCEPT ![e] = None],
     open |-> open \cup Opened(c),
     active |-> active]

\* a success branch that stores the new engine first and then disconnects
\* the engine of the session
AdoptThenRelease(e, c) ==
    [conn |-> [conn EXCEPT ![e] = NoConn],
     cache |-> [cache EXCEPT ![e] = None],
     open |-> open,
     active |-> e]

\* the success branch of a flow: st.session_state["engine"].disconnect(),
\* then st.session_state["engine"] = new_engine, whose conn is c
Adopt(e, c) ==
    [conn |-> [conn EXCEPT ![e] = c, ![active] = NoConn],
     cache |-> [cache EXCEPT ![e] = None, ![active] = None],
     open |-> OpenAfterDisconnect(active) \cup Opened(c),
     active |-> e]

\* a connect flow of tab_db after its input check: new_engine = k(),
\* new_engine.connect(...) ends as r, then the success or failure branch
Flow(op, k, r) ==
    /\ active # NoEngine
    /\ r.stage = "opened" => nextConn <= MaxConns
    /\ \E e \in {NewEngine}, c \in {NewConn(r)} :
         \E after \in {IF r.ok THEN Adopt(e, c) ELSE KeepActive(e, c)} :
            /\ kind' = [kind EXCEPT ![e] = k]
            /\ conn' = after.conn
            /\ cache' = after.cache
            /\ open' = after.open
            /\ active' = after.active
            /\ nextConn' = IF c = NoConn THEN nextConn ELSE nextConn + 1
            /\ last' = [Call(op, e) EXCEPT !.ok = Some(r.ok),
                                           !.message = r.msg]
    /\ UNCHANGED <<sqlText, join, draft>>

\* the Connect buttons of the four database types
ConnectFlow(k, r) == Flow("connect_flow", k, r)

\* the button Reset to Northwind
ResetFlow(r) == Flow("reset_flow", "SQLite", r)

\* a Connect button pressed with a required field left blank: st.warning
BlankInput ==
    /\ active # NoEngine
    /\ last' = Call("connect_flow", NoEngine)
    /\ UNCHANGED <<kind, conn, cache, open, nextConn, sqlText, active, join, draft>>

\* the first run of the script: get_engine() finds no engine in the
\* session, creates a SQLiteEngine, connects it to northwind.db (ending as
\* r) and stores it whether or not connect succeeded; then
\* schema = engine.get_schema(), where the backend answers as b
FirstRun(r, b) ==
    /\ active = NoEngine
    /\ r.stage = "opened" => nextConn <= MaxConns
    /\ \E e \in {NewEngine}, c \in {NewConn(r)} :
         \E s \in {get_schema("SQLite", c, None, b)} :
            /\ kind' = [kind EXCEPT ![e] = "SQLite"]
            /\ conn' = [conn EXCEPT ![e] = c]
            /\ cache' = [cache EXCEPT ![e] = s.cache]
            /\ open' = open \cup Opened(c)
            /\ active' = e
            /\ nextConn' = IF c = NoConn THEN nextConn ELSE nextConn + 1
            /\ last' = [Call("get_engine", e) EXCEPT
                           !.ok = Some(r.ok), !.message = r.msg,
                           !.schema = Some(s.schema), !.catq = s.catq,
                           !.failed = s.failed]
    /\ UNCHANGED <<sqlText, join, draft>>

\* a later run of the script: get_engine() returns the engine of the
\* session, then schema = engine.get_schema()
Rerun ==
    /\ active # NoEngine
    /\ GetSchema(active)

\* the refresh button of the sidebar
RefreshButton ==
    /\ active # NoEngine
    /\ RefreshSchema(active)

AppNext ==
    \/ \E r \in ConnectResults("SQLite"), b \in IntrospectionsOf("SQLite") :
           FirstRun(r, b)
    \/ Rerun
    \/ RefreshButton
    \/ \E k \in Kinds : \E r \in ConnectResults(k) : ConnectFlow(k, r)
    \/ \E r \in ConnectResults("SQLite") : ResetFlow(r)
    \/ BlankInput

AppSpec == Init /\ [][AppNext]_vars


\* ------------------------------------------------------------------------
\* DatabaseSchema.find_join_path
\* ------------------------------------------------------------------------
\* the tables of the database whose schema is searched
JoinTables == <<"Customers", "Employees", "Orders">>

JoinColumns ==
    [t \in Range(JoinTables) |->
        CASE t = "Customers" -> <<"CustomerID", "AccountManager", "FirstOrder">>
          [] t = "Employees" -> <<"EmployeeID", "ReportsTo", "KeyAccount",
                                  "LastOrder">>
          [] OTHER -> <<"OrderID", "CustomerID", "EmployeeID", "ShipRegion">>]

\* the foreign keys the database can declare, as (table, referenced table,
\* local column, referenced column); Regions lies outside the tables read
ForeignKeys ==
    << <<"Orders", "Customers", "CustomerID", "CustomerID">>,
       <<"Orders", "Employees", "EmployeeID", "EmployeeID">>,
       <<"Employees", "Employees", "ReportsTo", "EmployeeID">>,
       <<"Customers", "Employees", "AccountManager", "EmployeeID">>,
       <<"Employees", "Orders", "LastOrder", "OrderID">>,
       <<"Customers", "Orders", "FirstOrder", "OrderID">>,
       <<"Employees", "Customers", "KeyAccount", "CustomerID">>,
       <<"Orders", "Regions", "ShipRegion", "RegionID">> >>

\* the rows of foreign_key_list for table t when the database declares the
\* foreign keys fks
ForeignKeyList(fks, t) ==
    LET rows == SelectSeq(ForeignKeys, LAMBDA f : f \in fks /\ f[1] = t)
    IN  [i \in 1..Len(rows) |-> <<rows[i][2], rows[i][3], rows[i][4]>>]

\* the catalog of the database that declares the foreign keys fks
JoinCatalog(fks) ==
    [tables |-> JoinTables, columns |-> JoinColumns,
     fks |-> [t \in Range(JoinTables) |-> ForeignKeyList(fks, t)]]

\* the schemas get_schema builds from the catalogs with at most MaxFks
\* foreign keys
JoinModels ==
    { IntrospectSQLite(JoinCatalog(fks), FALSE, {}, {}).schema :
        fks \in {s \in SUBSET Range(ForeignKeys) : Cardinality(s) <= MaxFks} }

\* the table names a caller can ask for
JoinNames == Range(JoinTables) \cup {"Regions"}

\* the table lists passed to find_join_path
JoinRequests == UNION {[1..n -> JoinNames] : n \in 0..MaxRequest}

\* self.relationships.get(table, [])
RelationshipsGet(relationships, table) ==
    IF table \in DOMAIN relationships THEN relationships[table] ELSE <<>>

\* lines 86-91: the length test and the initial values of the locals
JoinStart(schema, tables) ==
    IF Len(tables) < 2
    THEN [pc |-> "done", self |-> schema, tables |-> tables,
          targets |-> {}, queue |-> <<>>, visited |-> {}, result |-> None]
    ELSE [pc |-> "loop", self |-> schema, tables |-> tables,
          targets |-> Range(Tail(tables)),
          queue |-> << <<tables[1], <<>>>> >>,
          visited |-> {}, result |-> None]

PopleftKeeps(queue) == queue
\* queue.popleft(): the queue that remains
Popleft(queue) == Tail(queue)

AppendAllLeft(queue, items) == items \o queue
\* queue.append for each of items, in their order
AppendAll(queue, items) == queue \o items

ForwardStepFromRef(current, path, rel) ==
    <<rel[1], path \o << <<rel[1], current, rel[3], rel[2]>> >> >>
\* line 105: the queue entry for a foreign key of current
ForwardStep(current, path, rel) ==
    <<rel[1], path \o << <<current, rel[1], rel[2], rel[3]>> >>>>

ReverseStepLocalFirst(current, path, table, rel) ==
    <<table, path \o << <<current, table, rel[2], rel[3]>> >>>>
\* line 110: the queue entry for a foreign key of table that references
\* current
ReverseStep(current, path, table, rel) ==
    <<table, path \o << <<current, table, rel[3], rel[2]>> >>>>

\* lines 103-105: the entries appended for the foreign keys of current
ForwardSteps(relationships, visited, current, path) ==
    LET rels == SelectSeq(RelationshipsGet(relationships, current),
                          LAMBDA rel : rel[1] \notin visited)
    IN  [i \in 1..Len(rels) |-> ForwardStep(current, path, rels[i])]

\* lines 106-110: the entries appended for the foreign keys that
\* reference current, table by table in the order of self.tables
RECURSIVE ReverseSteps(_, _, _, _, _)
ReverseSteps(tables, relationships, visited, current, path) ==
    IF tables = <<>> THEN <<>>
    ELSE LET table == Head(tables)
             rels == SelectSeq(RelationshipsGet(relationships, table),
                               LAMBDA rel : rel[1] = current)
             here == IF table \in visited THEN <<>>
                     ELSE [i \in 1..Len(rels) |->
                              ReverseStep(current, path, table, rels[i])]
         IN  here \o ReverseSteps(Tail(tables), relationships, visited,
                                  current, path)

RestartKeepsVisited(visited) == visited
\* line 99: visited = set()
Restart(visited) == {}

\* lines 93-110: one iteration of the while loop on a non-empty queue
Iterate(j) ==
    LET current == Head(j.queue)[1]
        path == Head(j.queue)[2]
        hit == current \in j.targets
        targets == IF hit THEN j.targets \ {current} ELSE j.targets
        queue == IF hit THEN << <<current, path>> >> ELSE Popleft(j.queue)
        visited == IF hit THEN Restart(j.visited) ELSE j.visited
    IN  IF hit /\ targets = {}
        THEN [j EXCEPT !.pc = "done", !.targets = targets,
                       !.queue = Popleft(j.queue), !.result = Some(path)]
        ELSE IF current \in visited
        THEN [j EXCEPT !.targets = targets, !.queue = queue,
                       !.visited = visited]
        ELSE [j EXCEPT
                 !.targets = targets,
                 !.visited = visited \cup {current},
                 !.queue =
                     AppendAll(AppendAll(queue,
                         ForwardSteps(j.self.relationships,
                                      visited \cup {current}, current, path)),
                         ReverseSteps(j.self.tables, j.self.relationships,
                                      visited \cup {current}, current, path))]

ExhaustedEmptyPlan(j) == [j EXCEPT !.pc = "done", !.result = Some(<<>>)]
\* line 111: the queue is empty, return None
Exhausted(j) == [j EXCEPT !.pc = "done", !.result = None]

\* find_join_path is called on a schema
JoinInit ==
    /\ EngineInit
    /\ sqlText = <<>>

\* the call and lines 86-91
JoinCall ==
    /\ join.pc = "idle"
    /\ \E schema \in JoinModels, tables \in JoinRequests :
           join' = JoinStart(schema, tables)
    /\ UNCHANGED <<kind, conn, cache, open, nextConn, sqlText, active,
                 draft, last>>

\* one pass through the body of the while loop
JoinIterate ==
    /\ join.pc = "loop"
    /\ join.queue # <<>>
    /\ join' = Iterate(join)
    /\ UNCHANGED <<kind, conn, cache, open, nextConn, sqlText, active,
                 draft, last>>

\* the while loop ends on an empty queue
JoinExhausted ==
    /\ join.pc = "loop"
    /\ join.queue = <<>>
    /\ join' = Exhausted(join)
    /\ UNCHANGED <<kind, conn, cache, open, nextConn, sqlText, active,
                 draft, last>>

JoinNext == JoinCall \/ JoinIterate \/ JoinExhausted

JoinSpec == JoinInit /\ [][JoinNext]_vars

\* the interpreter runs the loop to its end
FairJoinSpec == JoinSpec /\ WF_vars(JoinIterate) /\ WF_vars(JoinExhausted)


\* ------------------------------------------------------------------------
\* Dialect renderer
\* ------------------------------------------------------------------------
\* class SQLDialect
SQLSERVER == "sqlserver"
MYSQL == "mysql"
SQLDialect == {"sqlite", "postgres", SQLSERVER, MYSQL}

\* the characters of the table and column names of the model
Spelling ==
    [name \in {"Customers", "Employees", "Orders", "Regions", "CustomerID",
               "AccountManager", "FirstOrder", "EmployeeID", "ReportsTo",
               "KeyAccount", "LastOrder", "OrderID", "ShipRegion",
               "RegionID"} |->
        CASE name = "Customers" ->
               <<"C","u","s","t","o","m","e","r","s">>
          [] name = "Employees" ->
               <<"E","m","p","l","o","y","e","e","s">>
          [] name = "Orders" ->
               <<"O","r","d","e","r","s">>
          [] name = "Regions" ->
               <<"R","e","g","i","o","n","s">>
          [] name = "CustomerID" ->
               <<"C","u","s","t","o","m","e","r","I","D">>
          [] name = "AccountManager" ->
               <<"A","c","c","o","u","n","t","M","a","n","a","g","e","r">>
          [] name = "FirstOrder" ->
               <<"F","i","r","s","t","O","r","d","e","r">>
          [] name = "EmployeeID" ->
               <<"E","m","p","l","o","y","e","e","I","D">>
          [] name = "ReportsTo" ->
               <<"R","e","p","o","r","t","s","T","o">>
          [] name = "KeyAccount" ->
               <<"K","e","y","A","c","c","o","u","n","t">>
          [] name = "LastOrder" ->
               <<"L","a","s","t","O","r","d","e","r">>
          [] name = "OrderID" ->
               <<"O","r","d","e","r","I","D">>
          [] name = "ShipRegion" ->
               <<"S","h","i","p","R","e","g","i","o","n">>
          [] OTHER ->
               <<"R","e","g","i","o","n","I","D">>]

\* stands for the grave accent, the identifier quote of MySQL
Backtick == "GRAVE ACCENT"

\* q(name, d): the quoted identifier
q(name, d) ==
    IF d = SQLSERVER THEN <<"[">> \o Spelling[name] \o <<"]">>
    ELSE IF d = MYSQL THEN <<Backtick>> \o Spelling[name] \o <<Backtick>>
    ELSE <<"\"">> \o Spelling[name] \o <<"\"">>

\* render_select(d, limit), limit being None when the argument is left
\* out; None and 0 are false
render_select(d, limit) ==
    IF d = SQLSERVER /\ limit # None /\ limit[1] # 0
    THEN SELECT \o <<" ","T","O","P"," ">> \o Decimal(limit[1])
    ELSE SELECT

render_limit_EveryDialect(d, limit) ==
    <<"L","I","M","I","T"," ">> \o Decimal(limit)
\* render_limit(d, limit)
render_limit(d, limit) ==
    IF d = SQLSERVER THEN <<>>
    ELSE <<"L","I","M","I","T"," ">> \o Decimal(limit)

\* ------------------------------------------------------------------------
\* Query Builder tab: term discovery
\* ------------------------------------------------------------------------
\* ord(c) for the characters of identifiers
Ord(c) ==
    IF c \in Range(UpperLetters)
    THEN 64 + (CHOOSE i \in DOMAIN UpperLetters : UpperLetters[i] = c)
    ELSE IF c \in Range(LowerLetters)
    THEN 96 + (CHOOSE i \in DOMAIN LowerLetters : LowerLetters[i] = c)
    ELSE IF c = "_" THEN 95
    ELSE 46

\* s < t for two str values
RECURSIVE StrLess(_, _)
StrLess(s, t) ==
    IF t = <<>> THEN FALSE
    ELSE IF s = <<>> THEN TRUE
    ELSE IF Head(s) # Head(t) THEN Ord(Head(s)) < Ord(Head(t))
    ELSE StrLess(Tail(s), Tail(t))

\* DatabaseSchema.get_tables: sorted(self.tables)
get_tables(schema) ==
    LET names == Range(schema.tables)
    IN  CHOOSE s \in [1..Cardinality(names) -> names] :
            \A i, k \in DOMAIN s :
                i < k => StrLess(Spelling[s[i]], Spelling[s[k]])

\* DatabaseSchema.get_columns: self.columns.get(table, [])
get_columns(schema, table) ==
    IF table \in DOMAIN schema.columns THEN schema.columns[table] ELSE <<>>

\* lines 877-881: the table names and the "table.column" identifiers, a
\* table as <<table>> and an identifier as <<table, column>>
RECURSIVE SearchSpaceOf(_, _)
SearchSpaceOf(schema, tables) ==
    IF tables = <<>> THEN <<>>
    ELSE LET table == Head(tables)
             columns == get_columns(schema, table)
         IN  << <<table>> >>
               \o [i \in 1..Len(columns) |-> <<table, columns[i]>>]
               \o SearchSpaceOf(schema, Tail(tables))

SearchSpace(schema) == SearchSpaceOf(schema, get_tables(schema))

\* "." in name, for the names of the search space
IsColumn(name) == Len(name) = 2

\* the text of a name of the search space
NameText(name) ==
    IF IsColumn(name)
    THEN Spelling[name[1]] \o <<".">> \o Spelling[name[2]]
    ELSE Spelling[name[1]]

\* lines 883-891 and 896-904: fragment is in the lowered column part of an
\* identifier, or in the lowered table name
Hits(fragment, name) ==
    IF IsColumn(name) THEN Contains(Lower(Spelling[name[2]]), fragment)
    ELSE Contains(Lower(Spelling[name[1]]), fragment)

\* the entries of custom_synonyms that can match the names of the model
SynonymEntries ==
    << <<<<"s","o","l","d">>,
         << <<"o","r","d","e","r","s">>,
            <<"o","r","d","e","r","d","e","t","a","i","l","s">>,
            <<"q","u","a","n","t","i","t","y">>,
            <<"s","a","l","e","s">> >> >>,
       <<<<"r","e","v","e","n","u","e">>,
         << <<"u","n","i","t","p","r","i","c","e">>,
            <<"q","u","a","n","t","i","t","y">>,
            <<"d","i","s","c","o","u","n","t">>,
            <<"o","r","d","e","r","s">> >> >>,
       <<<<"b","u","y","e","r">>,
         << <<"c","u","s","t","o","m","e","r","s">>,
            <<"c","u","s","t","o","m","e","r","i","d">> >> >>,
       <<<<"c","u","s","t","o","m","e","r">>,
         << <<"c","u","s","t","o","m","e","r","s">>,
            <<"c","u","s","t","o","m","e","r","i","d">> >> >>,
       <<<<"s","t","a","f","f">>,
         << <<"e","m","p","l","o","y","e","e","s">>,
            <<"e","m","p","l","o","y","e","e","i","d">> >> >>,
       <<<<"e","m","p","l","o","y","e","e">>,
         << <<"e","m","p","l","o","y","e","e","s">>,
            <<"e","m","p","l","o","y","e","e","i","d">> >> >> >>

\* custom_synonyms as a dict
custom_synonyms ==
    [term \in {SynonymEntries[i][1] : i \in DOMAIN SynonymEntries} |->
        (CHOOSE e \in Range(SynonymEntries) : e[1] = term)[2]]

\* lines 893-904: per synonym, the names it hits
RECURSIVE SynonymLines(_, _)
SynonymLines(space, synonyms) ==
    IF synonyms = <<>> THEN <<>>
    ELSE LET synonym == Head(synonyms)
             hits == SelectSeq(space, LAMBDA name : Hits(Lower(synonym), name))
         IN  [i \in 1..Len(hits) |-> <<"Synonym", synonym, hits[i]>>]
               \o SynonymLines(space, Tail(synonyms))

\* n of get_close_matches(term_lower, candidates, n=3, cutoff=0.6)
CloseN == 3

\* get_close_matches: at most CloseN of the candidates; how many and which
\* of them is the choice of difflib, close is their number (one number
\* for the terms of a run) and the first candidates stand for them
get_close_matches(candidates, close) == SubSeq(candidates, 1, close)

SynonymsAlways(direct, term_lower) ==
    IF term_lower \in DOMAIN custom_synonyms
    THEN custom_synonyms[term_lower] ELSE <<>>
\* line 892: the synonyms consulted
SynonymsConsulted(direct, term_lower) ==
    IF direct = <<>> /\ term_lower \in DOMAIN custom_synonyms
    THEN custom_synonyms[term_lower] ELSE <<>>

\* discover_term(term) on the search space of the schema
discover_term(space, term, close) ==
    LET term_lower == Lower(term)
        direct == SelectSeq(space, LAMBDA name : Hits(term_lower, name))
        synonym == SynonymLines(space, SynonymsConsulted(direct, term_lower))
        matches == Range(direct) \cup {line[3] : line \in Range(synonym)}
        candidates == [i \in 1..Len(space) |-> Lower(NameText(space[i]))]
        suggestions == IF matches = {}
                       THEN get_close_matches(candidates, close) ELSE <<>>
    IN  [matches |-> matches,
         explanations |->
             [i \in 1..Len(direct) |-> <<"Direct match", direct[i]>>]
               \o synonym
               \o (IF suggestions = <<>> THEN <<>>
                   ELSE << <<"Possible matches", suggestions>> >>)]

\* the terms typed into the text input
DraftTerms ==
    { <<"o","r","d","e","r","s">>,
      <<"c","u","s","t","o","m","e","r">>,
      <<"i","d">>,
      <<"s","t","a","f","f">>,
      <<"A","c","c","o","u","n","t">>,
      <<"o","r","d","r">>,
      <<"s","o","l","d">> }

\* ------------------------------------------------------------------------
\* Query Builder tab: synthesis
\* ------------------------------------------------------------------------
\* the foreign keys of the databases the tab is run on
DraftForeignKeys ==
    { {},
      {ForeignKeys[1], ForeignKeys[2]},
      {ForeignKeys[4], ForeignKeys[5]},
      {ForeignKeys[1], ForeignKeys[2], ForeignKeys[4]},
      {ForeignKeys[1], ForeignKeys[8]} }

\* the schemas get_schema builds from them
DraftModels ==
    { IntrospectSQLite(JoinCatalog(fks), FALSE, {}, {}).schema :
        fks \in DraftForeignKeys }

\* the lists of terms of the text input
DraftIntents == UNION {[1..n -> DraftTerms] : n \in 0..MaxTerms}

\* the run of find_join_path from the state j of its loop to its return
RECURSIVE JoinRun(_)
JoinRun(j) ==
    IF j.pc = "done" THEN j.result
    ELSE IF j.queue = <<>> THEN Exhausted(j).result
    ELSE JoinRun(Iterate(j))

\* schema.find_join_path(tables)
find_join_path(schema, tables) == JoinRun(JoinStart(schema, tables))

\* the lists list(set) can give for the set S
ListsOf(S) ==
    {s \in [1..Cardinality(S) -> S] :
        \A i, k \in DOMAIN s : i # k => s[i] # s[k]}

\* s.join(parts)
RECURSIVE StrJoin(_, _)
StrJoin(s, parts) ==
    IF parts = <<>> THEN <<>>
    ELSE IF Len(parts) = 1 THEN parts[1]
    ELSE parts[1] \o s \o StrJoin(s, Tail(parts))

\* lines 919-942: the matches of each term and what they discover
Discovery(space, terms, close) ==
    LET found == [i \in DOMAIN terms |->
                     discover_term(space, terms[i], close)]
        term_to_columns ==
            [term \in Range(terms) |->
                found[CHOOSE i \in DOMAIN terms : terms[i] = term].matches]
        all == UNION {found[i].matches : i \in DOMAIN terms}
    IN  [found |-> found,
         term_to_columns |-> term_to_columns,
         discovered_tables |-> {m[1] : m \in all},
         discovered_columns |->
             [t \in {m[1] : m \in {n \in all : IsColumn(n)}} |->
                 {m[2] : m \in {n \in all : IsColumn(n) /\ n[1] = t}}],
         unmatched_terms |->
             SelectSeq(terms, LAMBDA term : term_to_columns[term] = {})]

\* lines 950-951: the bare table names among the matches
TableMatches(matches) == {m[1] : m \in {n \in matches : ~IsColumn(n)}}

\* lines 948-956: the sets final_tables can be; table_matches[0] is any of
\* the table matches of the term, since matches is a set
FinalTables(term_to_columns) ==
    LET terms == DOMAIN term_to_columns
        withTable == {t \in terms : TableMatches(term_to_columns[t]) # {}}
        owners == UNION { {m[1] : m \in term_to_columns[t]} :
                            t \in terms \ withTable }
        firsts == {first \in [withTable -> UNION {TableMatches(
                                   term_to_columns[t]) : t \in withTable}] :
                     \A t \in withTable :
                         first[t] \in TableMatches(term_to_columns[t])}
    IN  { owners \cup {first[t] : t \in withTable} : first \in firsts }

\* lines 974-979: the select list, the parts taken in the order of the
\* search space
SelectParts(space, disc) ==
    SelectSeq(space, LAMBDA name :
        /\ IsColumn(name)
        /\ name[1] \in DOMAIN disc.discovered_columns
        /\ name[2] \in disc.discovered_columns[name[1]])

\* lines 983-985: the JOIN lines of the path
RECURSIVE JoinLines(_, _)
JoinLines(join_path, d) ==
    IF join_path = <<>> THEN <<>>
    ELSE LET step == Head(join_path)
         IN  <<"J","O","I","N"," ">> \o q(step[2], d)
               \o <<" ","O","N"," ">>
               \o q(step[1], d) \o <<".">> \o q(step[3], d)
               \o <<" ","="," ">>
               \o q(step[2], d) \o <<".">> \o q(step[4], d) \o <<"\n">>
               \o JoinLines(Tail(join_path), d)

\* line 972: the draft for one table
SingleTableDraft(table, d) ==
    render_select(d, None) \o <<"\n"," "," ","*","\n","F","R","O","M"," ">>
      \o q(table, d) \o <<"\n">> \o render_limit(d, 10)

\* lines 974-986: the draft for a join path
JoinDraft(parts, tables_to_join, join_path, d) ==
    render_select(d, IF d = SQLSERVER THEN Some(10) ELSE None)
      \o <<"\n"," "," ">>
      \o StrJoin(<<",","\n"," "," ">>,
                 IF parts = <<>> THEN << <<"*">> >>
                 ELSE [i \in 1..Len(parts) |->
                          q(parts[i][1], d) \o <<".">> \o q(parts[i][2], d)])
      \o <<"\n","F","R","O","M"," ">> \o q(tables_to_join[1], d) \o <<"\n">>
      \o JoinLines(join_path, d)
      \o render_limit(d, 10)

\* line 988: the commented placeholder
Placeholder(tables_to_join) ==
    <<"-","-"," ","U","n","a","b","l","e"," ","t","o"," ","d","e","t","e",
      "r","m","i","n","e"," ","r","e","l","a","t","i","o","n","s","h","i",
      "p","s","\n","-","-"," ","T","a","b","l","e","s",":"," ">>
      \o StrJoin(<<",", " ">>,
                 [i \in 1..Len(tables_to_join) |-> Spelling[tables_to_join[i]]])

\* lines 946-988: steps 2 and 3 for the list tables_to_join
Synthesis(space, disc, final_tables, tables_to_join, schema, d) ==
    LET join_path == IF Len(tables_to_join) > 1
                     THEN find_join_path(schema, tables_to_join) ELSE None
        found == join_path # None /\ join_path[1] # <<>>
        parts == IF Len(tables_to_join) # 1 /\ found
                 THEN SelectParts(space, disc) ELSE <<>>
    IN  [final_tables |-> final_tables,
         tables_to_join |-> tables_to_join,
         join_path |-> join_path,
         select_parts |-> parts,
         sql_preview |->
             Some(IF Len(tables_to_join) = 1
                  THEN SingleTableDraft(tables_to_join[1], d)
                  ELSE IF found
                  THEN JoinDraft(parts, tables_to_join, join_path[1], d)
                  ELSE Placeholder(tables_to_join))]

\* the record of a run of the tab
DraftRun(schema, d, terms, disc, syn) ==
    [pc |-> "drafted", schema |-> schema, d |-> d, terms |-> terms,
     found |-> disc.found,
     term_to_columns |-> disc.term_to_columns,
     discovered_tables |-> disc.discovered_tables,
     discovered_columns |-> disc.discovered_columns,
     unmatched_terms |-> disc.unmatched_terms,
     final_tables |-> syn.final_tables,
     tables_to_join |-> syn.tables_to_join,
     join_path |-> syn.join_path,
     select_parts |-> syn.select_parts,
     sql_preview |-> syn.sql_preview]

\* lines 945-946: nothing is discovered, steps 2 to 4 are skipped
NothingDrafted ==
    [final_tables |-> {}, tables_to_join |-> <<>>, join_path |-> None,
     select_parts |-> <<>>, sql_preview |-> None]

\* a run of the script with the Query Builder tab: lines 849-1020
QueryBuilder ==
    /\ draft.pc = "idle"
    /\ \E schema \in DraftModels, d \in SQLDialect, terms \in DraftIntents :
       \E close \in 0..CloseN :
       \E space \in {SearchSpace(schema)} :
       \E disc \in {Discovery(space, terms, close)} :
          IF disc.discovered_tables = {}
          THEN draft' = DraftRun(schema, d, terms, disc, NothingDrafted)
          ELSE \E final_tables \in FinalTables(disc.term_to_columns) :
               \E tables_to_join \in
                      ListsOf(IF final_tables # {} THEN final_tables
                              ELSE disc.discovered_tables) :
                  draft' = DraftRun(schema, d, terms, disc,
                               Synthesis(space, disc, final_tables,
                                         tables_to_join, schema, d))
    /\ UNCHANGED <<kind, conn, cache, open, nextConn, sqlText, active, join,
                   last>>

\* render_select and render_limit are called with the limit n
Render ==
    /\ draft.pc = "idle"
    /\ \E d \in SQLDialect, n \in 1..MaxLimit :
          draft' = [pc |-> "rendered", d |-> d, limit |-> n,
                    select |-> render_select(d, Some(n)),
                    trailing |-> render_limit(d, n)]
    /\ UNCHANGED <<kind, conn, cache, open, nextConn, sqlText, active, join,
                   last>>

DraftNext == QueryBuilder \/ Render

DraftSpec == Init /\ [][DraftNext]_vars


\* ------------------------------------------------------------------------
\* Vocabulary of the properties (defined without the operators of the gate)
\* ------------------------------------------------------------------------
\* word stands in t at position i as a whole word, in any letter case
IsWordAt(word, t, i) ==
    /\ i + Len(word) - 1 <= Len(t)
    /\ \A k \in 1..Len(word) : UpperChar(t[i + k - 1]) = word[k]
    /\ (i = 1 \/ t[i - 1] \notin WordChars)
    /\ (i + Len(word) - 1 = Len(t) \/ t[i + Len(word)] \notin WordChars)

HasWord(word, t) == \E i \in 1..Len(t) : IsWordAt(word, t, i)

HasDenylistedWord(t) == \E n \in 1..Len(dangerous) : HasWord(dangerous[n], t)

\* t begins with SELECT in any letter case
BeginsWithSelect(t) ==
    /\ Len(t) >= Len(SELECT)
    /\ \A k \in 1..Len(SELECT) : UpperChar(t[k]) = SELECT[k]

\* every semicolon of t is a trailing one
OnlyTrailingSemicolons(t) ==
    \A i \in 1..Len(t) : t[i] = ";" => \A j \in i..Len(t) : t[j] = ";"

\* the number of semicolon-separated statements of t that are not empty
\* (a statement is numbered by the semicolons before it)
StatementCount(t) ==
    Cardinality({Cardinality({j \in 1..i : t[j] = ";"}) :
                    i \in {m \in 1..Len(t) : t[m] \notin Whitespace \cup {";"}}})

\* the phrase occurs in the message, in any letter case
Mentions(msg, phrase) ==
    \E i \in 1..Len(msg) :
        /\ i + Len(phrase) - 1 <= Len(msg)
        /\ \A k \in 1..Len(phrase) : LowerChar(msg[i + k - 1]) = phrase[k]

\* the least element of a non-empty set of positions
Least(ps) == CHOOSE k \in ps : \A m \in ps : k <= m

\* where the line comment opened before position i stops: at the next
\* newline, or past the end of the text
CommentLineStop(t, i) ==
    LET stops == {k \in i..Len(t) : t[k] = "\n"}
    IN  IF stops = {} THEN Len(t) + 1 ELSE Least(stops)

\* where the text goes on after the block comment whose body starts at
\* position i: behind its  */ , or past the end of the text
CommentBlockStop(t, i) ==
    LET ends == {k \in i..(Len(t) - 1) : t[k] = "*" /\ t[k + 1] = "/"}
    IN  IF ends = {} THEN Len(t) + 1 ELSE Least(ends) + 2

RECURSIVE WithoutComments(_, _)
\* t from position i on as a SQL scanner reads it, from left to right: a
\* line comment runs to the end of its line, a block comment to its  */
\* (or to the end of the text) and separates what stands around it
WithoutComments(t, i) ==
    IF i > Len(t) THEN <<>>
    ELSE IF i < Len(t) /\ t[i] = "-" /\ t[i + 1] = "-"
    THEN WithoutComments(t, CommentLineStop(t, i + 2))
    ELSE IF i < Len(t) /\ t[i] = "/" /\ t[i + 1] = "*"
    THEN <<" ">> \o WithoutComments(t, CommentBlockStop(t, i + 2))
    ELSE <<t[i]>> \o WithoutComments(t, i + 1)

ExecuteSelectReturned == last.op = "execute_select"

\* ------------------------------------------------------------------------
\* C1
\* ------------------------------------------------------------------------
\* C1: whenever execute_select hands a text to the backend, that text is
\* the comment-stripped input, begins with SELECT in any letter case,
\* contains no denylisted keyword as a whole word in any letter case and
\* has no semicolon other than trailing ones; for every input text and every
\* engine class.
C1_HandedTextIsGated ==
    last.handed # None =>
        \E t \in {last.handed[1]} :
            /\ t = strip_sql_comments(last.sql)
            /\ BeginsWithSelect(t)
            /\ ~HasDenylistedWord(t)
            /\ OnlyTrailingSemicolons(t)

\* a text with a comment and a lower-case letter was handed to the backend
C1_Witness ==
    /\ last.handed # None
    /\ Contains(last.sql, <<"-","-">>)
    /\ ~Contains(last.handed[1], <<"-","-">>)
    /\ last.handed[1] # Upper(last.handed[1])

\* ------------------------------------------------------------------------
\* C2
\* ------------------------------------------------------------------------
\* C2 as stated: raw SQL that contains a denylisted keyword as a whole
\* word is refused with a Warning and is not executed, whatever comments
\* surround the keyword (a keyword inside a comment is not counted).
C2_RawKeywordRefused ==
    (ExecuteSelectReturned /\ conn[last.eng] # NoConn
        /\ HasDenylistedWord(WithoutComments(last.sql, 1))) =>
        /\ last.result[1].status = "warning"
        /\ last.handed = None

\* C2 amended: raw SQL whose comment-stripped text contains a denylisted
\* keyword as a whole word, in any letter case, is refused by a connected
\* engine with a Warning and is not executed.
C2_CleanedKeywordRefused ==
    (ExecuteSelectReturned /\ conn[last.eng] # NoConn
        /\ HasDenylistedWord(strip_sql_comments(last.sql))) =>
        /\ last.result[1].status = "warning"
        /\ last.result[1].df = None
        /\ last.handed = None
        /\ last.calls = 0

\* a mixed-case keyword next to a comment was refused
C2_Witness ==
    /\ ExecuteSelectReturned
    /\ conn[last.eng] # NoConn
    /\ \E c \in {strip_sql_comments(last.sql)} :
          /\ HasWord(dangerous[4], c)
          /\ ~Contains(c, dangerous[4])
          /\ c # Strip(last.sql)
    /\ last.result[1].status = "warning"

\* ------------------------------------------------------------------------
\* C3
\* ------------------------------------------------------------------------
MultipleStatementsWarning == SandboxResult("warning", None, MsgMultiple)

\* C3 as stated: raw SQL with two or more semicolon-separated non-empty
\* statements is refused with the multiple-statements Warning (statements
\* are counted outside the comments).
C3_RawStatementsRefused ==
    (ExecuteSelectReturned /\ conn[last.eng] # NoConn
        /\ StatementCount(WithoutComments(last.sql, 1)) >= 2) =>
        last.result[1] = MultipleStatementsWarning

\* C3 amended: raw SQL whose comment-stripped text has two or more
\* semicolon-separated non-empty statements is refused by a connected
\* engine with the multiple-statements Warning, also when it contains a
\* denylisted keyword or does not begin with SELECT (the check comes first).
C3_CleanedStatementsRefused ==
    (ExecuteSelectReturned /\ conn[last.eng] # NoConn
        /\ StatementCount(strip_sql_comments(last.sql)) >= 2) =>
        /\ last.result[1] = MultipleStatementsWarning
        /\ last.handed = None

\* a SELECT followed by a DROP statement was refused for being two statements
C3_Witness ==
    /\ ExecuteSelectReturned
    /\ \E c \in {strip_sql_comments(last.sql)} :
          /\ StatementCount(c) >= 2
          /\ BeginsWithSelect(c)
          /\ HasWord(dangerous[4], c)
    /\ last.result[1] = MultipleStatementsWarning

\* ------------------------------------------------------------------------
\* C4
\* ------------------------------------------------------------------------
INTO == <<"I","N","T","O">>

\* a statement that changes data or schema: one with a denylisted keyword,
\* or SELECT ... INTO, which creates a table (SQL Server, PostgreSQL) or
\* writes a file (MySQL)
IsMutating(t) == HasDenylistedWord(t) \/ HasWord(INTO, t)

\* C4: no mutating statement reaches the backend, the mutating forms that
\* start with SELECT included.
C4_NoMutatingStatementHanded ==
    last.handed # None => ~IsMutating(last.handed[1])

\* ------------------------------------------------------------------------
\* C5
\* ------------------------------------------------------------------------
\* C5: a SQL text reaches the backend only in execute_select
\* and only when the empty-input, multiple-statement, denylist and
\* SELECT-prefix checks all pass, for every engine class; when the outcome
\* is a Warning the backend is not called, with no text at all.
C5_BackendOnlyBehindGate ==
    /\ ~ExecuteSelectReturned => (last.handed = None /\ last.calls = 0)
    /\ ExecuteSelectReturned =>
         \E c \in {strip_sql_comments(last.sql)} :
            /\ (last.calls > 0) = (last.handed # None)
            /\ last.handed # None =>
                 /\ last.handed = Some(c)
                 /\ \E i \in 1..Len(last.sql) : last.sql[i] \notin Whitespace
                 /\ OnlyTrailingSemicolons(c)
                 /\ ~HasDenylistedWord(c)
                 /\ BeginsWithSelect(c)
            /\ last.result[1].status = "warning" =>
                 (last.handed = None /\ last.calls = 0)

\* a text that begins with SELECT was refused and the backend was not called
C5_Witness ==
    /\ ExecuteSelectReturned
    /\ BeginsWithSelect(strip_sql_comments(last.sql))
    /\ last.result[1].status = "warning"
    /\ last.handed = None
    /\ last.calls = 0

\* ------------------------------------------------------------------------
\* C6
\* ------------------------------------------------------------------------
\* C6: execute_select on an engine that holds no connection is refused at
\* once with a Warning outcome, not an Error, before any check of the text
\* and without a call of the backend.
C6_NotConnectedIsWarning ==
    (ExecuteSelectReturned /\ conn[last.eng] = NoConn) =>
        /\ last.result[1].status = "warning"
        /\ last.handed = None
        /\ last.calls = 0

\* ------------------------------------------------------------------------
\* C7
\* ------------------------------------------------------------------------
\* the hint that belongs to a raw backend message: the first of
\* unknown-function, syntax-error, unknown-table that the message mentions
HintFor(raw) ==
    IF Mentions(raw, NoSuchFunction) THEN <<HintDialect>>
    ELSE IF Mentions(raw, SyntaxError) THEN <<HintSyntax>>
    ELSE IF Mentions(raw, NoSuchTable) THEN <<HintTable>>
    ELSE <<>>

\* C7: when the backend raises on a text that passed the checks,
\* execute_select returns an Error outcome without data whose message is
\* the raw backend message followed by at most one hint, chosen in the
\* order unknown-function, syntax-error, unknown-table; the backend was
\* called once, and the connection, the schema cache and the open sessions
\* are as they were before the call.
C7_BackendFailureIsError ==
    /\ []((ExecuteSelectReturned /\ last.raised # None) =>
            /\ last.result[1].status = "error"
            /\ last.result[1].df = None
            /\ last.result[1].message
                  = last.raised[1] \o HintFor(last.raised[1])
            /\ last.calls = 1
            /\ last.handed # None)
    /\ [][ (last'.op = "execute_select" /\ last'.raised # None) =>
              /\ conn' = conn
              /\ cache' = cache
              /\ open' = open ]_vars

\* the backend raised a message that mentions an unknown function and a
\* syntax error, and the outcome carries the dialect hint only
C7_Witness ==
    /\ ExecuteSelectReturned
    /\ last.raised # None
    /\ Mentions(last.raised[1], NoSuchFunction)
    /\ Mentions(last.raised[1], SyntaxError)
    /\ last.result[1].status = "error"
    /\ last.result[1].message = last.raised[1] \o <<HintDialect>>
    /\ cache[last.eng] # None

\* ------------------------------------------------------------------------
\* C8
\* ------------------------------------------------------------------------
\* C8: every outcome of execute_select is exactly one of success, warning
\* and error, and it carries tabular data iff it is a success.
C8_OneVariantDataIffSuccess ==
    ExecuteSelectReturned =>
        /\ last.result # None
        /\ last.result[1].status \in {"success", "warning", "error"}
        /\ (last.result[1].df # None) = (last.result[1].status = "success")

\* a query succeeded with no rows: the outcome carries an empty frame
C8_Witness ==
    /\ ExecuteSelectReturned
    /\ last.result[1].status = "success"
    /\ last.result[1].df = Some(0)

\* ------------------------------------------------------------------------
\* C9
\* ------------------------------------------------------------------------
\* C9: once get_schema has stored a schema, every later get_schema on that
\* engine returns the stored schema, issues no catalog query and leaves the
\* stored schema in place; a stored schema goes away or changes only in a
\* refresh_schema, disconnect or connect call on that engine.
C9_CachedSchemaReturned ==
    [][ \A e \in Engines :
          /\ (cache[e] # None /\ last'.op = "get_schema" /\ last'.eng = e) =>
                /\ last'.schema = Some(cache[e][1].schema)
                /\ last'.catq = 0
                /\ cache'[e] = cache[e]
          /\ (cache[e] # None /\ cache'[e] # cache[e]) =>
                /\ last'.eng = e
                /\ last'.op \in {"refresh_schema", "disconnect", "connect"} ]_vars

\* get_schema answered from the stored schema, which has tables
C9_Witness ==
    /\ last.op = "get_schema"
    /\ last.catq = 0
    /\ cache[last.eng] # None
    /\ last.schema = Some(cache[last.eng][1].schema)
    /\ Len(last.schema[1].tables) > 0

\* ------------------------------------------------------------------------
\* C10
\* ------------------------------------------------------------------------
\* C10: in every reachable state the schema cache of an engine is absent
\* or was read over the connection the engine holds now, so it is never
\* present without a connection; and refresh_schema leaves no schema in
\* the cache but one it has read anew.
C10_CacheBelongsToConnection ==
    /\ [](\A e \in Engines :
            cache[e] # None => (conn[e] # NoConn /\ cache[e][1].via = conn[e]))
    /\ [][ last'.op = "refresh_schema" =>
             \/ cache'[last'.eng] = None
             \/ /\ last'.catq > 0
                /\ cache'[last'.eng][1].schema = last'.schema[1]
                /\ cache'[last'.eng][1].via = conn[last'.eng] ]_vars

\* after a second connect, refresh_schema read the schema anew over the
\* new connection
C10_Witness ==
    /\ last.op = "refresh_schema"
    /\ cache[last.eng] # None
    /\ conn[last.eng] >= 2
    /\ cache[last.eng][1].via = conn[last.eng]

\* ------------------------------------------------------------------------
\* C11
\* ------------------------------------------------------------------------
SchemaReturned == last.op \in {"get_schema", "refresh_schema"}

\* C11: get_schema returns a schema and raises nothing, for every engine
\* class, and when a catalog read raised during the introspection the
\* schema returned has no tables.
C11_FailedReadGivesEmptySchema ==
    SchemaReturned =>
        /\ last.schema # None
        /\ last.failed > 0 => last.schema[1].tables = <<>>

\* ------------------------------------------------------------------------
\* C12
\* ------------------------------------------------------------------------
\* C12: when connect is called on an engine that holds a connection and
\* returns failure, the engine still holds the same connection, that
\* connection is still open and the schema cache is unchanged; for every
\* engine class.
C12_FailedConnectKeepsHandle ==
    [][ (/\ last'.op = "connect"
         /\ last'.ok = Some(FALSE)
         /\ conn[last'.eng] # NoConn) =>
            /\ conn'[last'.eng] = conn[last'.eng]
            /\ conn[last'.eng] \in open'
            /\ cache'[last'.eng] = cache[last'.eng] ]_vars

\* ------------------------------------------------------------------------
\* C13
\* ------------------------------------------------------------------------
FlowReturned == last.op \in {"connect_flow", "reset_flow"}

\* C13: in every connect flow of the application (SQLite, Reset to
\* Northwind, PostgreSQL, MySQL, SQL Server), when connect fails on the
\* new engine the session keeps its engine, and that engine keeps its
\* class, its connection, still open, and its schema cache.
C13_FailedFlowKeepsActive ==
    [][ (last'.op \in {"connect_flow", "reset_flow"}
            /\ last'.ok = Some(FALSE)) =>
            /\ active' = active
            /\ kind'[active] = kind[active]
            /\ conn'[active] = conn[active]
            /\ cache'[active] = cache[active]
            /\ conn[active] # NoConn => conn[active] \in open' ]_vars

\* a flow to a server failed while the session's engine was connected and
\* had its schema cached
C13_Witness ==
    /\ FlowReturned
    /\ last.ok = Some(FALSE)
    /\ last.eng # active
    /\ kind[last.eng] \in {"PostgreSQL", "MySQL", "SQL Server"}
    /\ conn[active] \in open
    /\ cache[active] # None

\* ------------------------------------------------------------------------
\* C14
\* ------------------------------------------------------------------------
\* C14: the session references at most one engine at any moment; a flow
\* that succeeds releases the connection of the previous engine and makes
\* the new engine, whose connection is open, the engine of the session; and
\* when only the connection of the session's engine was open before a
\* replacement, only that of the new engine is open after it.
C14_ReplacementReleasesPrevious ==
    /\ [](active \in Engines \cup {NoEngine})
    /\ [][ (last'.op \in {"connect_flow", "reset_flow"}
               /\ last'.ok = Some(TRUE)) =>
               /\ active' = last'.eng
               /\ active' # active
               /\ conn'[active] = NoConn
               /\ conn[active] # NoConn => conn[active] \notin open'
               /\ conn'[active'] \in open'
               /\ open \subseteq {conn[active]} =>
                     open' = {conn'[active']} ]_vars

\* the engine of the session was replaced a second time, and its
\* connection is the only one open
C14_Witness ==
    /\ FlowReturned
    /\ last.ok = Some(TRUE)
    /\ active = last.eng
    /\ conn[active] >= 3
    /\ open = {conn[active]}

\* ------------------------------------------------------------------------
\* C15
\* ------------------------------------------------------------------------
\* C15: when connect returns failure on an engine that held no connection,
\* the engine holds no connection afterwards and no session opened by the
\* call stays open.
C15_FailedConnectLeavesNoConnection ==
    [][ (/\ last'.op = "connect"
         /\ last'.ok = Some(FALSE)
         /\ conn[last'.eng] = NoConn) =>
            /\ conn'[last'.eng] = NoConn
            /\ open' = open ]_vars

\* ------------------------------------------------------------------------
\* Vocabulary of the join path properties
\* ------------------------------------------------------------------------
\* find_join_path has returned
JoinReturned == join.pc = "done"

\* find_join_path has returned a plan (possibly without steps)
PlanReturned == JoinReturned /\ join.result # None

\* the model lists the foreign key (ref_table, local_col, ref_col) under
\* table
Listed(table, triple) ==
    /\ table \in DOMAIN join.self.relationships
    /\ triple \in Range(join.self.relationships[table])

\* the step follows a foreign key of its left table
FollowsForeignKey(step) == Listed(step[1], <<step[2], step[3], step[4]>>)

\* the step follows a foreign key of its right table against its direction
FollowsReferencing(step) == Listed(step[2], <<step[1], step[4], step[3]>>)

\* ------------------------------------------------------------------------
\* C16
\* ------------------------------------------------------------------------
\* C16: every step (left_table, right_table, left_column, right_column)
\* of a returned plan is a relationship of the model with the columns on
\* the correct sides: (right_table, left_column, right_column) is listed
\* under left_table, or (left_table, right_column, left_column) is listed
\* under right_table.
C16_StepsAreRelationships ==
    PlanReturned =>
        \A i \in 1..Len(join.result[1]) :
            \/ FollowsForeignKey(join.result[1][i])
            \/ FollowsReferencing(join.result[1][i])

\* a plan of a foreign key followed in its direction and one followed
\* against it, with differently named columns
C16_Witness ==
    /\ PlanReturned
    /\ \E i, k \in 1..Len(join.result[1]) :
          /\ FollowsForeignKey(join.result[1][i])
          /\ ~FollowsReferencing(join.result[1][i])
          /\ FollowsReferencing(join.result[1][k])
          /\ ~FollowsForeignKey(join.result[1][k])
          /\ join.result[1][k][3] # join.result[1][k][4]

\* ------------------------------------------------------------------------
\* The relationship graph taken as undirected
\* ------------------------------------------------------------------------
\* the tables the model names: its tables, the tables that have foreign
\* keys and the tables foreign keys reference
GraphTables ==
    Range(join.self.tables) \cup DOMAIN join.self.relationships
      \cup UNION { {rel[1] : rel \in Range(join.self.relationships[t])} :
                     t \in DOMAIN join.self.relationships }

\* a foreign key of a references b
References(a, b) ==
    /\ a \in DOMAIN join.self.relationships
    /\ \E rel \in Range(join.self.relationships[a]) : rel[1] = b

\* a foreign key links a and b, in either direction
Linked(a, b) == References(a, b) \/ References(b, a)

\* the tables at most n hops from table a
RECURSIVE Within(_, _)
Within(a, n) ==
    IF n = 0 THEN {a}
    ELSE LET near == Within(a, n - 1)
         IN  near \cup {b \in GraphTables : \E c \in near : Linked(c, b)}

\* the connected component of table a
Component(a) == Within(a, Cardinality(GraphTables))

\* the hop distance from a to a table b of the component of a
Distance(a, b) ==
    CHOOSE n \in 0..Cardinality(GraphTables) :
        /\ b \in Within(a, n)
        /\ \A m \in 0..(n - 1) : b \notin Within(a, m)

\* the tables asked for
Requested == Range(join.tables)

\* ------------------------------------------------------------------------
\* C17
\* ------------------------------------------------------------------------
\* C17 as stated: the result is None on a list of fewer than two tables
\* and on tables of the model that relationships do not connect, and for
\* every table list it is None or a plan of at least one step.
C17_NoneOrNonEmptyPlan ==
    JoinReturned =>
        /\ Len(join.tables) < 2 => join.result = None
        /\ (/\ Len(join.tables) >= 2
            /\ Requested \subseteq Range(join.self.tables)
            /\ ~(Requested \subseteq Component(join.tables[1])))
              => join.result = None
        /\ join.result = None \/ Len(join.result[1]) >= 1

\* C17 amended: the result is None on a list of fewer than two tables and
\* on tables of the model that relationships do not connect; on a list in
\* which some entry differs from the first it is None or a plan of at
\* least one step; on a list of two or more entries that all name the same
\* table it is the plan without steps.
C17_NoneOrNonEmptyPlanUnlessOneTable ==
    JoinReturned =>
        /\ Len(join.tables) < 2 => join.result = None
        /\ (/\ Len(join.tables) >= 2
            /\ Requested \subseteq Range(join.self.tables)
            /\ ~(Requested \subseteq Component(join.tables[1])))
              => join.result = None
        /\ Cardinality(Requested) >= 2
              => join.result = None \/ Len(join.result[1]) >= 1
        /\ (Len(join.tables) >= 2 /\ Cardinality(Requested) = 1)
              => join.result = Some(<<>>)

\* the loop ran dry on tables of the model that have foreign keys but are
\* not connected to the first
C17_Witness ==
    /\ JoinReturned
    /\ Cardinality(Requested) >= 2
    /\ Requested \subseteq Range(join.self.tables)
    /\ \E t \in Requested :
          /\ t \notin Component(join.tables[1])
          /\ Component(t) # {t}
    /\ Component(join.tables[1]) # {join.tables[1]}
    /\ join.result = None

\* ------------------------------------------------------------------------
\* C18
\* ------------------------------------------------------------------------
\* C18: for two distinct requested tables that relationships connect, the
\* plan has as many steps as the hop distance between them in the
\* relationship graph taken as undirected; when a foreign key links them
\* directly, in either direction, the plan is one step from the first to
\* the second, and for Orders referencing Customers by CustomerID it is
\* (Orders, Customers, CustomerID, CustomerID).
C18_ShortestPath ==
    (/\ JoinReturned
     /\ Len(join.tables) = 2
     /\ join.tables[1] # join.tables[2]
     /\ join.tables[2] \in Component(join.tables[1])) =>
        /\ join.result # None
        /\ Len(join.result[1]) = Distance(join.tables[1], join.tables[2])
        /\ Linked(join.tables[1], join.tables[2]) =>
              /\ Len(join.result[1]) = 1
              /\ join.result[1][1][1] = join.tables[1]
              /\ join.result[1][1][2] = join.tables[2]
        /\ (/\ join.tables = <<"Orders", "Customers">>
            /\ References("Orders", "Customers")
            /\ ~References("Customers", "Orders")) =>
              join.result[1] =
                  << <<"Orders", "Customers", "CustomerID", "CustomerID">> >>

\* two tables a foreign key links directly and that a third table links
\* as well: the plan is the single step
C18_Witness ==
    /\ JoinReturned
    /\ Len(join.tables) = 2
    /\ join.tables[1] # join.tables[2]
    /\ Linked(join.tables[1], join.tables[2])
    /\ \E c \in GraphTables \ Requested :
          Linked(join.tables[1], c) /\ Linked(c, join.tables[2])
    /\ join.result # None
    /\ Len(join.result[1]) = 1

\* ------------------------------------------------------------------------
\* C19
\* ------------------------------------------------------------------------
\* C19: every call of find_join_path that enters the loop returns; each
\* iteration that does not return removes a target, or keeps the targets
\* and expands a table not expanded since the last restart, or keeps both
\* and shortens the queue.
C19_Terminates ==
    /\ (join.pc = "loop") ~> (join.pc = "done")
    /\ [][ (join.pc = "loop" /\ join'.pc = "loop") =>
              \/ /\ join'.targets \subseteq join.targets
                 /\ join'.targets # join.targets
              \/ /\ join'.targets = join.targets
                 /\ join.visited \subseteq join'.visited
                 /\ join'.visited # join.visited
              \/ /\ join'.targets = join.targets
                 /\ join'.visited = join.visited
                 /\ Len(join'.queue) < Len(join.queue) ]_vars

\* a request of three tables on a model with a foreign-key cycle has
\* returned a plan
C19_Witness ==
    /\ PlanReturned
    /\ Cardinality(Requested) >= 3
    /\ \E a, b \in GraphTables :
          a # b /\ References(a, b) /\ References(b, a)
    /\ Len(join.result[1]) >= 2

\* ------------------------------------------------------------------------
\* C20
\* ------------------------------------------------------------------------
\* the relationship keys are tables of the model and the request names
\* two or more tables, each once
DistinctRequest ==
    /\ DOMAIN join.self.relationships \subseteq Range(join.self.tables)
    /\ Len(join.tables) >= 2
    /\ Cardinality(Requested) = Len(join.tables)

\* C20: on a model whose relationship keys are tables and a request of two
\* or more distinct tables, a plan is returned exactly when every
\* requested table lies in the connected component of the first one, and
\* the plan mentions every requested table as the first table or as the
\* right table of a step; None is returned only when a requested table is
\* outside that component.
C20_PlanIffConnected ==
    (JoinReturned /\ DistinctRequest) =>
        /\ join.result # None <=> Requested \subseteq Component(join.tables[1])
        /\ join.result # None =>
              \A t \in Requested :
                  \/ t = join.tables[1]
                  \/ \E i \in 1..Len(join.result[1]) :
                         join.result[1][i][2] = t

\* three distinct tables, the first between the other two: the plan
\* reaches one target, restarts there and passes the first table again
C20_Witness ==
    /\ PlanReturned
    /\ DistinctRequest
    /\ Len(join.tables) = 3
    /\ Len(join.result[1]) = 3
    /\ join.result[1][2][2] = join.tables[1]
    /\ ~Linked(join.tables[2], join.tables[3])

\* ------------------------------------------------------------------------
\* C21
\* ------------------------------------------------------------------------
\* C21: in every returned plan the left table of each step is the first
\* requested table or the right table of an earlier step of the plan.
C21_StepsStartAtReachedTable ==
    PlanReturned =>
        \A i \in 1..Len(join.result[1]) :
            \/ join.result[1][i][1] = join.tables[1]
            \/ \E k \in 1..(i - 1) :
                   join.result[1][k][2] = join.result[1][i][1]

\* a plan of three steps: the second starts at the right table of the
\* first, the third at the first requested table, which the second joined
\* again
C21_Witness ==
    /\ PlanReturned
    /\ Len(join.result[1]) >= 3
    /\ join.result[1][2][1] # join.tables[1]
    /\ join.result[1][2][1] = join.result[1][1][2]
    /\ join.result[1][3][1] = join.tables[1]
    /\ join.result[1][3][1] = join.result[1][2][2]

\* ------------------------------------------------------------------------
\* Vocabulary of the draft properties
\* ------------------------------------------------------------------------
\* the number a text of decimal digits denotes
RECURSIVE DigitsValue(_)
DigitsValue(s) ==
    IF s = <<>> THEN 0
    ELSE 10 * DigitsValue(SubSeq(s, 1, Len(s) - 1))
           + (CHOOSE v \in 0..9 :
                  <<"0","1","2","3","4","5","6","7","8","9">>[v + 1]
                      = s[Len(s)])

\* s is the decimal text of the positive number n
IsNumber(s, n) ==
    /\ s # <<>>
    /\ \A i \in DOMAIN s : s[i] \in Digits
    /\ s[1] # "0"
    /\ DigitsValue(s) = n

\* s is the word (TOP or LIMIT), a space and the number n
IsLimitOf(s, word, n) ==
    /\ Len(s) > Len(word) + 1
    /\ SubSeq(s, 1, Len(word)) = word
    /\ s[Len(word) + 1] = " "
    /\ IsNumber(SubSeq(s, Len(word) + 2, Len(s)), n)

\* ------------------------------------------------------------------------
\* C22
\* ------------------------------------------------------------------------
\* C22: for every dialect and positive limit n, SQL Server gets the
\* leading "SELECT TOP n" and an empty trailing fragment, the three other
\* dialects get the plain "SELECT" and the trailing "LIMIT n"; exactly one
\* of the two fragments limits the rows.
C22_OneRowLimitFragment ==
    draft.pc = "rendered" =>
        /\ draft.d = "sqlserver" =>
              /\ Len(draft.select) > 7
              /\ SubSeq(draft.select, 1, 7) = <<"S","E","L","E","C","T"," ">>
              /\ IsLimitOf(SubSeq(draft.select, 8, Len(draft.select)),
                           <<"T","O","P">>, draft.limit)
              /\ draft.trailing = <<>>
        /\ draft.d # "sqlserver" =>
              /\ draft.select = <<"S","E","L","E","C","T">>
              /\ IsLimitOf(draft.trailing, <<"L","I","M","I","T">>,
                           draft.limit)
        /\ (draft.select # <<"S","E","L","E","C","T">>)
              # (draft.trailing # <<>>)

\* the fragments for SQL Server and a limit of two digits
C22_Witness ==
    /\ draft.pc = "rendered"
    /\ draft.d = "sqlserver"
    /\ draft.limit >= 10
    /\ draft.select # <<"S","E","L","E","C","T">>
    /\ draft.trailing = <<>>

\* the number of places at which sub stands in s
Occurrences(s, sub) ==
    Cardinality({i \in 1..Len(s) : OccursAt(s, sub, i)})

\* the tab has drafted a query that is not the commented placeholder
QueryDrafted ==
    /\ draft.pc = "drafted"
    /\ draft.sql_preview # None
    /\ SubSeq(draft.sql_preview[1], 1, 2) # <<"-","-">>

\* the text carries the row limit n once, in the form of dialect d
CarriesLimit(text, d, n) ==
    LET top == <<"T","O","P"," ">>
        limit == <<"L","I","M","I","T"," ">>
        lead == <<"S","E","L","E","C","T"," ">> \o top
        stop == CHOOSE i \in 1..Len(text) : text[i] = "\n"
        tail == CHOOSE i \in 1..Len(text) :
                    /\ text[i] = "\n"
                    /\ \A k \in (i + 1)..Len(text) : text[k] # "\n"
    IN  /\ "\n" \in Range(text)
        /\ Occurrences(text, top) + Occurrences(text, limit) = 1
        /\ IF d = "sqlserver"
           THEN /\ SubSeq(text, 1, Len(lead)) = lead
                /\ IsNumber(SubSeq(text, Len(lead) + 1, stop - 1), n)
           ELSE IsLimitOf(SubSeq(text, tail + 1, Len(text)),
                          <<"L","I","M","I","T">>, n)

\* ------------------------------------------------------------------------
\* C23
\* ------------------------------------------------------------------------
\* C23: every drafted query that is not the commented placeholder, for
\* one table or for a join, carries the row limit 10 exactly once in the
\* form of the selected dialect: a leading TOP 10 for SQL Server, a
\* trailing LIMIT 10 for the other dialects.
C23_DraftCarriesDefaultLimit ==
    QueryDrafted => CarriesLimit(draft.sql_preview[1], draft.d, 10)

\* the tab has run on a list of terms
Drafted == draft.pc = "drafted"

\* the kinds of explanation lines discover_term returned for term i
LineKinds(i) == {line[1] : line \in Range(draft.found[i].explanations)}

\* the names that the explanation lines of term i report as matched
ExplainedMatches(i) ==
    {line[Len(line)] :
        line \in {l \in Range(draft.found[i].explanations) :
                     l[1] \in {"Direct match", "Synonym"}}}

\* ------------------------------------------------------------------------
\* C24
\* ------------------------------------------------------------------------
\* C24: for every term, synonym matches are reported only when nothing
\* matched directly, suggestions only when nothing matched directly or by
\* synonym; the matched set holds the direct or synonym matches and never
\* a suggestion; a term without matches is listed as unmatched and adds
\* no table: the discovered tables are those of the matched names, and the
\* tables of the draft are among them.
C24_FirstNonEmptyStepWins ==
    Drafted =>
        /\ \A i \in DOMAIN draft.terms :
              /\ "Synonym" \in LineKinds(i) => "Direct match" \notin LineKinds(i)
              /\ "Possible matches" \in LineKinds(i) =>
                     LineKinds(i) = {"Possible matches"}
              /\ draft.found[i].matches = ExplainedMatches(i)
              /\ draft.term_to_columns[draft.terms[i]] = ExplainedMatches(i)
              /\ ExplainedMatches(i) = {} <=>
                     \E k \in DOMAIN draft.unmatched_terms :
                         draft.unmatched_terms[k] = draft.terms[i]
        /\ draft.discovered_tables =
               {m[1] : m \in UNION {ExplainedMatches(i) :
                                      i \in DOMAIN draft.terms}}
        /\ draft.final_tables \subseteq draft.discovered_tables
        /\ Range(draft.tables_to_join) \subseteq draft.discovered_tables
        /\ draft.discovered_tables = {} => draft.sql_preview = None

\* one term resolved by a synonym, another has suggestions only; the
\* draft names one table
C24_Witness ==
    /\ Drafted
    /\ \E i, k \in DOMAIN draft.terms :
          /\ LineKinds(i) = {"Synonym"}
          /\ LineKinds(k) = {"Possible matches"}
          /\ draft.unmatched_terms = <<draft.terms[k]>>
    /\ Len(draft.tables_to_join) = 1
    /\ draft.sql_preview # None

\* the names of the search space of the schema: each table and each
\* column of a table as "table.column"
Identifiers ==
    {<<t>> : t \in Range(draft.schema.tables)}
      \cup UNION { {<<t, c>> : c \in Range(draft.schema.columns[t])} :
                      t \in Range(draft.schema.tables) }

\* the text of an identifier, in lower case
IdentifierLower(name) ==
    IF Len(name) = 1 THEN Lower(Spelling[name[1]])
    ELSE Lower(Spelling[name[1]] \o <<".">> \o Spelling[name[2]])

\* the names the direct step of discover_term reported for term i
DirectMatched(i) ==
    {line[2] : line \in {l \in Range(draft.found[i].explanations) :
                            l[1] = "Direct match"}}

\* ------------------------------------------------------------------------
\* C25
\* ------------------------------------------------------------------------
\* C25: the direct step matches exactly the table names and the
\* "table.column" identifiers whose text, the whole identifier for a
\* column, contains the term as a substring without regard to case.
C25_DirectMatchOnWholeIdentifier ==
    Drafted =>
        \A i \in DOMAIN draft.terms :
            DirectMatched(i) =
                {name \in Identifiers :
                    Contains(IdentifierLower(name), Lower(draft.terms[i]))}

\* the terms of the run that matched something
MatchedTerms ==
    {t \in DOMAIN draft.term_to_columns : draft.term_to_columns[t] # {}}

\* the tables that can represent a matched term: its bare table matches
\* when it has one, otherwise the owning tables of its column matches
Representatives(term) ==
    LET matches == draft.term_to_columns[term]
        bare == {m[1] : m \in {n \in matches : Len(n) = 1}}
    IN  IF bare # {} THEN bare ELSE {m[1] : m \in matches}

\* ------------------------------------------------------------------------
\* C26
\* ------------------------------------------------------------------------
\* C26: the target tables hold exactly one table for each matched term: a
\* bare table match of the term when it has one, otherwise the owning
\* table of a column match.
C26_OneTablePerTerm ==
    (Drafted /\ draft.discovered_tables # {}) =>
        \E rep \in [MatchedTerms -> draft.discovered_tables] :
            /\ \A t \in MatchedTerms : rep[t] \in Representatives(t)
            /\ draft.final_tables = {rep[t] : t \in MatchedTerms}

\* ------------------------------------------------------------------------
\* C27
\* ------------------------------------------------------------------------
\* C27: in every plan returned for a list of distinct tables, the right
\* tables of the steps are pairwise distinct and none is the first
\* requested table, so that FROM and the JOINs name each table once.
C27_NoTableJoinedTwice ==
    (PlanReturned /\ Cardinality(Requested) = Len(join.tables)) =>
        /\ \A i, k \in 1..Len(join.result[1]) :
               i # k => join.result[1][i][2] # join.result[1][k][2]
        /\ \A i \in 1..Len(join.result[1]) :
               join.result[1][i][2] # join.tables[1]

\* the tab has drafted a join query
JoinDrafted == QueryDrafted /\ Len(draft.tables_to_join) > 1

\* the tables the drafted join query names in FROM and JOIN
JoinedTables ==
    {draft.tables_to_join[1]}
      \cup {draft.join_path[1][i][2] : i \in 1..Len(draft.join_path[1])}

\* the text names table after FROM, inside the quotes of the dialect
FromNames(text, table) ==
    \E i \in 1..Len(text) :
        /\ OccursAt(text, <<"\n","F","R","O","M"," ">>, i)
        /\ SubSeq(text, i + 7, i + 6 + Len(Spelling[table])) = Spelling[table]

\* ------------------------------------------------------------------------
\* C28
\* ------------------------------------------------------------------------
\* C28: in every drafted join query the FROM table is the first table of
\* the list given to find_join_path, and every table with a column in the
\* SELECT list is the FROM table or the right table of a JOIN step.
C28_SelectedTablesAreJoined ==
    JoinDrafted =>
        /\ FromNames(draft.sql_preview[1], draft.tables_to_join[1])
        /\ \A i \in 1..Len(draft.select_parts) :
               draft.select_parts[i][1] \in JoinedTables

\* ------------------------------------------------------------------------
\* C29
\* ------------------------------------------------------------------------
\* C29: the schema cache of an engine is filled only by a get_schema or
\* refresh_schema call whose introspection ran without a failed catalog
\* read; a call whose introspection failed, or that found no connection,
\* leaves the cache absent, also when refresh_schema had a cached model to
\* drop.
C29_CacheOnlyFromSuccessfulIntrospection ==
    [][ \A e \in Engines :
          /\ (cache'[e] # None /\ cache'[e] # cache[e]) =>
                /\ last'.eng = e
                /\ last'.op \in {"get_schema", "refresh_schema"}
                /\ last'.catq > 0
                /\ last'.failed = 0
          /\ (/\ last'.eng = e
              /\ last'.op \in {"get_schema", "refresh_schema"}
              /\ last'.op = "get_schema" => cache[e] = None
              /\ last'.failed > 0 \/ conn[e] = NoConn) =>
                cache'[e] = None ]_vars

====
